---- MODULE Spec2Model ----
(***************************************************************************)
(* grass-fireworks: a model of the animation fragment helpers, the level   *)
(* calculator, the themed SVG generator and the two HTTP endpoints.        *)
(*                                                                         *)
(* Numbers: times are integers in milliseconds, key-time fractions are     *)
(* integers in units of 1/10000 (so the fraction 1 is 10000 and            *)
(* toFixed(3) values are multiples of 10).                                 *)
(***************************************************************************)
EXTENDS Integers, Sequences, FiniteSets, TLC

VARIABLES
    \* ---- svg-helpers (animateAttr / animateTransform) ----
    call,          \* the last helper call: its arguments, or None
    result,        \* what that call did: a thrown error or a fragment
    \* ---- fireworks-level (calculateLevel) ----
    commitsIn,     \* the last commit count classified, or None
    levelOut,      \* the level calculateLevel returned for it
    prevCommits,   \* the commit count of the call before, or None
    prevLevel,     \* the level returned for it
    \* ---- svg-generator (generateFireworksSVG) ----
    cfg,           \* the configuration of the last call, or None
    svg,           \* the document it returned: a sequence of layer groups
    \* ---- index.ts (the two endpoints, the edge cache, the upstream) ----
    cache,         \* edge cache: its entries, each a request and the response stored
    handlers,      \* the invocations of the Worker: where each one stands
    world,         \* the URLs asked for, the upstream's replies, the days
    req,           \* the request last answered, or None
    resp,          \* the response to it
    fetched,       \* the Result of the upstream fetch made for it, or None
    effects,       \* what handling it did: cache read/write, upstream call, SVG
    refused,       \* the URLs a validator has answered 400 so far
    \* ---- services/github.ts (one fetchTodayContributions call in progress) ----
    pc,            \* where the call stands: idle, fetching, reading, aborted, done
    timer,         \* the timeout timer: none, pending, fired, cleared
    elapsed,       \* milliseconds since the call was made
    inflight       \* what the upstream sent for the call, or None

helperVars == <<call, result>>
levelVars  == <<commitsIn, levelOut, prevCommits, prevLevel>>
renderVars == <<cfg, svg>>
httpVars   == <<cache, handlers, world, req, resp, fetched, effects, refused>>
fetchVars  == <<pc, timer, elapsed, inflight>>
vars == <<call, result, commitsIn, levelOut, prevCommits, prevLevel,
          cfg, svg, cache, handlers, world, req, resp, fetched, effects, refused,
          pc, timer, elapsed, inflight>>

\* A variable that may hold nothing is a sequence: <<>> for nothing, <<x>> for x.
None == <<>>
Some(x) == <<x>>

HelperIdle == call = None /\ result = None
LevelIdle  == commitsIn = None /\ levelOut = None /\ prevCommits = None /\ prevLevel = None
RenderIdle == cfg = None /\ svg = None
FetchIdle  == pc = "idle" /\ timer = "none" /\ elapsed = 0 /\ inflight = None

(***************************************************************************)
(* utils/svg-helpers.ts                                                    *)
(***************************************************************************)

\* Longest values / keyTimes array the helper calls are tried with.
MaxLen == 3

\* The option objects the helpers are called with ("absent" = not given).
AnimateOptions ==
    { [calcMode |-> "absent", keySplines |-> "absent", begin |-> "absent",
       repeatCount |-> "absent", fill |-> "absent"],
      [calcMode |-> "spline", keySplines |-> "0.4 0 0.2 1", begin |-> "0.5s",
       repeatCount |-> "1", fill |-> "freeze"] }

\* The attribute list both helpers build after the length check.
AnimateFragment(tag, attributeName, type, values, keyTimes, dur, options) ==
    [status      |-> "ok",
     tag         |-> tag,
     attributeName |-> attributeName,
     type        |-> type,
     values      |-> values,
     keyTimes    |-> keyTimes,
     dur         |-> dur,
     begin       |-> IF options.begin = "absent" THEN "0s" ELSE options.begin,
     repeatCount |-> IF options.repeatCount = "absent" THEN "indefinite" ELSE options.repeatCount,
     calcMode    |-> options.calcMode,
     keySplines  |-> IF options.keySplines # "absent" /\ options.calcMode = "spline"
                     THEN options.keySplines ELSE "absent",
     fill        |-> options.fill]

LengthMismatch(fn, name, values, keyTimes) ==
    [status |-> "error", fn |-> fn, name |-> name,
     nValues |-> Len(values), nKeyTimes |-> Len(keyTimes)]

\* A faulty length check that only rejects a values array that is too long.
animateAttrOnlyLonger(attr, values, keyTimes, dur, options) ==
    IF Len(values) > Len(keyTimes)
    THEN LengthMismatch("animateAttr", attr, values, keyTimes)
    ELSE AnimateFragment("animate", attr, "absent", values, keyTimes, dur, options)

animateAttr(attr, values, keyTimes, dur, options) ==
    IF Len(values) # Len(keyTimes)
    THEN LengthMismatch("animateAttr", attr, values, keyTimes)
    ELSE AnimateFragment("animate", attr, "absent", values, keyTimes, dur, options)

animateTransform(type, values, keyTimes, dur, options) ==
    IF Len(values) # Len(keyTimes)
    THEN LengthMismatch("animateTransform", type, values, keyTimes)
    ELSE AnimateFragment("animateTransform", "transform", type, values, keyTimes, dur, options)

SeqsUpTo(S, n) == UNION {[1..k -> S] : k \in 0..n}

HelperValues   == SeqsUpTo({"0", "1"}, MaxLen)
HelperKeyTimes == SeqsUpTo({0, 10000}, MaxLen)

CallAnimateAttr ==
    \E attr \in {"opacity"}, values \in HelperValues, keyTimes \in HelperKeyTimes,
       options \in AnimateOptions :
        /\ call' = Some([fn |-> "animateAttr", name |-> attr, values |-> values,
                         keyTimes |-> keyTimes, options |-> options])
        /\ result' = Some(animateAttr(attr, values, keyTimes, "2s", options))
        /\ UNCHANGED <<levelVars, renderVars, httpVars, fetchVars>>

CallAnimateTransform ==
    \E type \in {"translate"}, values \in HelperValues, keyTimes \in HelperKeyTimes,
       options \in AnimateOptions :
        /\ call' = Some([fn |-> "animateTransform", name |-> type, values |-> values,
                         keyTimes |-> keyTimes, options |-> options])
        /\ result' = Some(animateTransform(type, values, keyTimes, "2s", options))
        /\ UNCHANGED <<levelVars, renderVars, httpVars, fetchVars>>

(***************************************************************************)
(* services/fireworks-level.ts                                             *)
(***************************************************************************)

\* Commit counts tried: -MaxNegCommits .. MaxCommits.
MaxCommits == 34
MaxNegCommits == 2

\* A band boundary moved by one: 15 commits fall into level 4.
calculateLevelOffByOne(commits) ==
    IF commits <= 0 THEN 0
    ELSE IF commits <= 3 THEN 1
    ELSE IF commits <= 7 THEN 2
    ELSE IF commits < 15 THEN 3
    ELSE IF commits <= 29 THEN 4
    ELSE 5

calculateLevel(commits) ==
    IF commits <= 0 THEN 0
    ELSE IF commits <= 3 THEN 1
    ELSE IF commits <= 7 THEN 2
    ELSE IF commits <= 15 THEN 3
    ELSE IF commits <= 29 THEN 4
    ELSE 5

\* A text is a sequence of pieces: a piece is one character, or a run of
\* characters none of which is & < > " or '. The kata and matsuri names are
\* written in kanji in the source and romanised here.
LEVEL_NAMES == << <<"Silent Night">>, <<"Getting Started">>, <<"Good Progress">>,
                  <<"Productive Day">>, <<"On Fire">>, <<"Legendary">> >>
LEVEL_NAMES_KATA == << <<"seiya">>, <<"wabi">>, <<"botan">>, <<"hachi">>, <<"kankiku">>,
                       <<"nishiki-kamuro-senrin">> >>
LEVEL_NAMES_MATSURI == << <<"seiya">>, <<"senko-hanabi">>, <<"sumidagawa">>, <<"tsuchiura">>,
                          <<"suwako">>, <<"nagaoka">> >>

\* A slip: the theme is not looked at.
getLevelNameIgnoresTheme(level, theme) == LEVEL_NAMES[level + 1]

\* theme is "kata", "matsuri" or "undefined" (argument omitted).
getLevelName(level, theme) ==
    IF theme = "kata" THEN LEVEL_NAMES_KATA[level + 1]
    ELSE IF theme = "matsuri" THEN LEVEL_NAMES_MATSURI[level + 1]
    ELSE LEVEL_NAMES[level + 1]

CallCalculateLevel ==
    \E commits \in (0 - MaxNegCommits)..MaxCommits :
        /\ commitsIn' = Some(commits)
        /\ levelOut' = Some(calculateLevel(commits))
        /\ prevCommits' = commitsIn
        /\ prevLevel' = levelOut
        /\ UNCHANGED <<helperVars, renderVars, httpVars, fetchVars>>

(***************************************************************************)
(* Key-time arithmetic of the generators                                   *)
(***************************************************************************)

\* Number.prototype.toFixed: the nearest multiple of the last digit, the larger
\* one at a tie. The value is num/den >= 0.
RoundHalfUp(num, den) == (2 * num + den) \div (2 * den)

\* (num/den).toFixed(4) and (num/den).toFixed(3), in units of 1/10000.
toFixed4(num, den) == RoundHalfUp(num * 10000, den)
toFixed3(num, den) == RoundHalfUp(num * 1000, den) * 10

\* Math.min(num/den, 0.99).toFixed(4)
toFixed4Min99(num, den) == IF num * 100 >= 99 * den THEN 9900 ELSE toFixed4(num, den)

\* One timeline element (<animate> or <animateTransform>): the number of entries
\* of its values list, its keyTimes list (<<>> when it has none), in src the seed
\* its values are computed from besides the call's arguments (<<>> when there is
\* none) and in draws the values a draw of Math.random() can give it (<<>> when
\* they depend on no draw).
Timeline(gen, tag, attr, nValues, keyTimes, src) ==
    [gen |-> gen, tag |-> tag, attr |-> attr, nValues |-> nValues,
     keyTimes |-> keyTimes, src |-> src, draws |-> <<>>]
TimelineOfDraw(gen, tag, attr, nValues, keyTimes, draws) ==
    [gen |-> gen, tag |-> tag, attr |-> attr, nValues |-> nValues,
     keyTimes |-> keyTimes, src |-> <<>>, draws |-> draws]

\* count sibling elements (<circle>, <line>, ...) that carry the same timelines:
\* a loop that pushes one element per particle, where the particles differ only
\* in the coordinates written into values (the angle), never in keyTimes.
Shape(element, count, timelines) ==
    [element |-> element, count |-> count, timelines |-> timelines]

\* A top-level <g> of the document, with the shapes inside it (inner <g>s and
\* <defs> are not kept) and, for the overlay, the text it prints.
Group(id, class, shapes, text) ==
    [id |-> id, class |-> class, shapes |-> shapes, text |-> text]

\* F(0) \o F(1) \o ... \o F(n-1): the body of a for loop pushing F(i).
ForEach(n, F(_)) ==
    LET RECURSIVE Loop(_)
        Loop(i) == IF i >= n THEN <<>> ELSE F(i) \o Loop(i + 1)
    IN  Loop(0)

(***************************************************************************)
(* generators/svg-firework-parts.ts: shared particle generators            *)
(***************************************************************************)

\* IEEE-754: for these (delay, loop) pairs (sparkStart + sparkEnd) / 2 evaluates to
\* a double just below a decimal tie (1.5 s in a 4 s loop: 0.41249999999999998),
\* so toFixed(3) prints the smaller neighbour.
SparkMidBelowTie == {<<1500, 4000>>}

sparkMid(delay, loopDuration) ==
    IF <<delay, loopDuration>> \in SparkMidBelowTie
    THEN toFixed3(2 * delay + 300, 2 * loopDuration) - 10
    ELSE toFixed3(2 * delay + 300, 2 * loopDuration)

\* A spark whose key times lost the middle stop while its values kept all five.
generateSparkNoMid(delay, loopDuration) ==
    LET kt == <<0, toFixed3(delay, loopDuration), toFixed3(delay + 300, loopDuration), 10000>>
    IN  << Shape("circle", 1,
                 << Timeline("spark", "animate", "r", 5, kt, <<>>),
                    Timeline("spark", "animate", "opacity", 5, kt, <<>>) >>) >>

generateSpark(delay, loopDuration) ==
    LET kt == <<0, toFixed3(delay, loopDuration), sparkMid(delay, loopDuration),
                toFixed3(delay + 300, loopDuration), 10000>>
    IN  << Shape("circle", 1,
                 << Timeline("spark", "animate", "r", 5, kt, <<>>),
                    Timeline("spark", "animate", "opacity", 5, kt, <<>>) >>) >>

generateRotatingParticles(particleCount, duration, delay, loopDuration) ==
    LET explosionStart == toFixed3(delay, loopDuration)
        explosionEnd == toFixed3(delay + duration, loopDuration)
        move == <<0, explosionStart, explosionEnd, 10000>>
        fade == <<0, explosionStart, toFixed3(delay + 100, loopDuration), explosionEnd, 10000>>
    IN  << Shape("circle", particleCount,
            << Timeline("rotating", "animateTransform", "translate", 4, move, <<>>),
               Timeline("rotating", "animateTransform", "rotate", 4, move, <<>>),
               Timeline("rotating", "animate", "opacity", 5, fade, <<>>),
               Timeline("rotating", "animate", "r", 5, fade, <<>>) >>) >>

generateGravityParticles(particleCount, duration, delay, loopDuration) ==
    LET explosionStart == toFixed3(delay, loopDuration)
        expandEnd == toFixed3(10 * delay + 4 * duration, 10 * loopDuration)
        droopEnd == toFixed3(delay + duration, loopDuration)
        move == <<0, explosionStart, expandEnd, droopEnd, 10000>>
        fade == <<0, explosionStart, toFixed3(delay + 100, loopDuration),
                  expandEnd, droopEnd, 10000>>
    IN  << Shape("circle", particleCount,
            << Timeline("gravity", "animateTransform", "translate", 5, move, <<>>),
               Timeline("gravity", "animate", "opacity", 6, fade, <<>>),
               Timeline("gravity", "animate", "r", 6, fade, <<>>) >>) >>

\* positions.length particles, particle i delayed by i * 0.02 s.
ShapedParticle(i, duration, delay, loopDuration) ==
    LET particleDelay == delay + i * 20
        pStart == toFixed3(particleDelay, loopDuration)
        explosionEnd == toFixed3(delay + duration, loopDuration)
    IN  << Shape("circle", 1,
                 << Timeline("shaped", "animateTransform", "translate", 4,
                             <<0, pStart, explosionEnd, 10000>>, <<>>),
                    Timeline("shaped", "animate", "opacity", 5,
                             <<0, pStart, toFixed3(particleDelay + 80, loopDuration),
                               explosionEnd, 10000>>, <<>>) >>) >>

generateShapedParticles(nPositions, duration, delay, loopDuration) ==
    LET P(i) == ShapedParticle(i, duration, delay, loopDuration)
    IN  ForEach(nPositions, P)

generateReflectionPoints(particleCount, duration, delay, loopDuration) ==
    LET explosionStart == toFixed3(delay, loopDuration)
        explosionEnd == toFixed3(delay + duration, loopDuration)
        reflectionCount == particleCount \div 2
    IN  << Shape("circle", reflectionCount,
            << Timeline("reflection", "animateTransform", "translate", 4,
                        <<0, explosionStart, explosionEnd, 10000>>, <<>>),
               Timeline("reflection", "animate", "opacity", 6,
                        <<0, explosionStart, toFixed3(delay + 150, loopDuration),
                          toFixed3(2 * delay + duration, 2 * loopDuration),
                          explosionEnd, 10000>>, <<>>) >>) >>

(***************************************************************************)
(* generators/themes/kata-levels.ts                                        *)
(***************************************************************************)

TRAIL_DURATION == 600

\* generateTrail: a <line> with three <animate> children.
generateTrail(duration, delay, loopInterval) ==
    LET start == toFixed4(delay, loopInterval)
        trailEnd == toFixed4(delay + duration, loopInterval)
        fadeEnd == toFixed4Min99(delay + duration + 300, loopInterval)
    IN  << Shape("line", 1,
                 << Timeline("trail", "animate", "y2", 4,
                             <<0, start, trailEnd, 10000>>, <<>>),
                    Timeline("trail", "animate", "y1", 5,
                             <<0, start, toFixed4(2 * delay + duration, 2 * loopInterval),
                               fadeEnd, 10000>>, <<>>),
                    Timeline("trail", "animate", "opacity", 6,
                             <<0, start, toFixed4(delay + 50, loopInterval), trailEnd,
                               fadeEnd, 10000>>, <<>>) >>) >>

\* generateParticles: particleCount <circle>s, three timelines each.
generateParticles(particleCount, duration, delay, loopInterval) ==
    LET explosionStart == toFixed4(delay, loopInterval)
        explosionEnd == toFixed4(delay + duration, loopInterval)
    IN  << Shape("circle", particleCount,
            << Timeline("particles", "animateTransform", "translate", 4,
                        <<0, explosionStart, explosionEnd, 10000>>, <<>>),
               Timeline("particles", "animate", "opacity", 6,
                        <<0, explosionStart, toFixed4(delay + 50, loopInterval),
                          toFixed4(10 * delay + 7 * duration, 10 * loopInterval),
                          explosionEnd, 10000>>, <<>>),
               Timeline("particles", "animate", "r", 5,
                        <<0, explosionStart, toFixed4(delay + 100, loopInterval),
                          explosionEnd, 10000>>, <<>>) >>) >>

\* The body of a for loop over a table of fireworks: F(fireworks[1]) \o ...
ForAll(fireworks, F(_)) ==
    LET G(i) == F(fireworks[i + 1])
    IN  ForEach(Len(fireworks), G)

generateKataLevel1 ==
    Group("firework-kata-level-1", "",
        LET loopInterval == 4000
            explosionDelay == TRAIL_DURATION
        IN  generateTrail(TRAIL_DURATION, 0, loopInterval)
            \o generateSpark(explosionDelay, loopInterval)
            \o generateParticles(10, 1200, explosionDelay, loopInterval),
        <<>>)

generateKataLevel2 ==
    Group("firework-kata-level-2", "",
        LET loopInterval == 3500
            fireworks == << [delay |-> 0, count |-> 14], [delay |-> 500, count |-> 14] >>
            One(fw) ==
                LET explosionDelay == fw.delay + TRAIL_DURATION
                IN  generateTrail(TRAIL_DURATION, fw.delay, loopInterval)
                    \o generateSpark(explosionDelay, loopInterval)
                    \o generateParticles(fw.count, 700, explosionDelay, loopInterval)
        IN  ForAll(fireworks, One),
        <<>>)

generateKataLevel3 ==
    Group("firework-kata-level-3", "",
        LET loopInterval == 4000
            fireworks == << [delay |-> 0], [delay |-> 500], [delay |-> 900] >>
            One(fw) ==
                LET explosionDelay == fw.delay + TRAIL_DURATION
                IN  generateTrail(TRAIL_DURATION, fw.delay, loopInterval)
                    \o generateSpark(explosionDelay, loopInterval)
                    \o generateRotatingParticles(16, 1000, explosionDelay, loopInterval)
        IN  ForAll(fireworks, One),
        <<>>)

generateKataLevel4 ==
    Group("firework-kata-level-4", "",
        LET loopInterval == 4500
            fireworks == << [delay |-> 0, count |-> 20], [delay |-> 300, count |-> 14],
                            [delay |-> 500, count |-> 14], [delay |-> 800, count |-> 14],
                            [delay |-> 1000, count |-> 14] >>
            One(fw) ==
                LET explosionDelay == fw.delay + TRAIL_DURATION
                IN  generateTrail(TRAIL_DURATION, fw.delay, loopInterval)
                    \o generateSpark(explosionDelay, loopInterval)
                    \o generateGravityParticles(fw.count, 1400, explosionDelay, loopInterval)
        IN  ForAll(fireworks, One),
        <<>>)

generateKataLevel5 ==
    Group("firework-kata-level-5", "",
        LET loopInterval == 5000
            mainExplosionDelay == TRAIL_DURATION
            surroundingFireworks ==
                << [delay |-> 200], [delay |-> 300], [delay |-> 500], [delay |-> 600],
                   [delay |-> 800], [delay |-> 900], [delay |-> 1100], [delay |-> 1200] >>
            One(fw) ==
                LET explosionDelay == fw.delay + TRAIL_DURATION
                IN  generateTrail(TRAIL_DURATION, fw.delay, loopInterval)
                    \o generateParticles(10, 700, explosionDelay, loopInterval)
        IN  generateTrail(TRAIL_DURATION, 0, loopInterval)
            \o generateSpark(mainExplosionDelay, loopInterval)
            \o generateGravityParticles(24, 1600, mainExplosionDelay, loopInterval)
            \o generateParticles(16, 800, mainExplosionDelay + 100, loopInterval)
            \o ForAll(surroundingFireworks, One),
        <<>>)

(***************************************************************************)
(* generators/themes/matsuri-levels.ts                                     *)
(* (its generateTrail and generateParticles are line-for-line the ones of  *)
(* kata-levels.ts, and its TRAIL_DURATION is the same 0.6 s)               *)
(***************************************************************************)

\* Math.random(): any double in [0, 1), each draw unrelated to the one before, from
\* a generator the engine seeds and the program never does. A value that depends
\* on a draw is kept as the list of all the values the draw can give it (the draws
\* of its timeline); the draws of different particles are independent, so each
\* particle has its own list.

\* 1000 * cos and 1000 * sin of 2 * PI * i / 12, i = 0..11 (index i + 1).
COS12 == <<1000, 866, 500, 0, -500, -866, -1000, -866, -500, 0, 500, 866>>
SIN12 == <<0, 500, 866, 1000, 866, 500, 0, -500, -866, -1000, -866, -500>>

\* The side of the table's value on which the double Math.cos / Math.sin returns
\* lies (-1 below, 0 on it, 1 above): Math.sin(Math.PI / 6) is 0.49999999999999994,
\* Math.cos(4 * Math.PI / 3) is -0.5000000000000004, Math.cos(Math.PI / 2) is 6.1e-17.
COS12_SIDE == <<0, 1, 1, 1, 1, -1, 0, -1, -1, -1, 1, 1>>
SIN12_SIDE == <<0, -1, 1, 0, 1, -1, 1, 1, -1, 0, -1, -1>>

\* Math.round(x) for x = num / den, den > 0: floor(x + 0.5).
MathRound(num, den) == (2 * num + den) \div (2 * den)

\* Math.round(t * d) for d = dNum / dDen > 0 and t the double that lies on the
\* given side of trig / 1000: a product that sits on n + 0.5 is rounded up to
\* n + 1, one just below it down to n.
MathRoundTrig(trig, side, dNum, dDen) ==
    LET num == 2 * trig * dNum + 1000 * dDen
        den == 2 * 1000 * dDen
    IN  IF num % den = 0 /\ side < 0 THEN (num \div den) - 1 ELSE num \div den

\* The <<dx, dy>> particle i of generateSparklerEffect can get:
\*   distance = maxDistance * (0.6 + Math.random() * 0.4),
\*   dx = Math.round(Math.cos(angle) * distance), dy likewise with Math.sin.
\* The distance is any double from maxDistance * 0.6 (draw 0) to maxDistance (the
\* largest draw: 0.6 + draw * 0.4 rounds to 1). Strictly between the two, the
\* coordinate with factor t has magnitude a on the distances between
\* (a - 0.5) / |t| and (a + 0.5) / |t|; a pair is given when the two ranges meet.
SparklerOffsets(i, maxDistance) ==
    LET c == COS12[i + 1]
        s == SIN12[i + 1]
        ac == IF c < 0 THEN -c ELSE c
        as == IF s < 0 THEN -s ELSE s
        Sign(x) == IF x < 0 THEN -1 ELSE IF x > 0 THEN 1 ELSE 0
        AtDistance(dNum, dDen) ==
            << MathRoundTrig(c, COS12_SIDE[i + 1], dNum, dDen),
               MathRoundTrig(s, SIN12_SIDE[i + 1], dNum, dDen) >>
        first == AtDistance(3 * maxDistance, 5)
        last == AtDistance(maxDistance, 1)
        InRange(a, t) ==
            IF t = 0 THEN a = 0
            ELSE /\ (2 * a - 1) * 1000 < 2 * t * maxDistance
                 /\ 5 * (2 * a + 1) * 1000 > 6 * t * maxDistance
        Meets(p) ==
            /\ InRange(p[1], ac)
            /\ InRange(p[2], as)
            /\ (ac # 0 /\ as # 0) =>
                   /\ (2 * p[1] - 1) * as < (2 * p[2] + 1) * ac
                   /\ (2 * p[2] - 1) * ac < (2 * p[1] + 1) * as
        side == maxDistance + 1
        magnitudes == [k \in 1..(side * side) |-> <<(k - 1) \div side, (k - 1) % side>>]
        met == SelectSeq(magnitudes, Meets)
        between == [k \in 1..Len(met) |-> <<Sign(c) * met[k][1], Sign(s) * met[k][2]>>]
        Has(seq, p) == \E k \in DOMAIN seq : seq[k] = p
    IN  (IF Has(between, first) THEN <<>> ELSE <<first>>)
        \o between
        \o (IF Has(between, last) \/ last = first THEN <<>> ELSE <<last>>)

\* One particle of generateSparklerEffect.
SparklerParticle(i, maxDistance, delay, loopInterval) ==
    LET explosionStart == toFixed4(delay, loopInterval)
        explosionEnd == toFixed4(delay + 2000, loopInterval)
    IN  << Shape("circle", 1,
                 << TimelineOfDraw("sparkler", "animateTransform", "translate", 4,
                             <<0, explosionStart, toFixed4(delay + 1000, loopInterval),
                               explosionEnd>>, SparklerOffsets(i, maxDistance)),
                    Timeline("sparkler", "animate", "opacity", 6,
                             <<0, toFixed4(delay + i * 150, loopInterval),
                               toFixed4(delay + 200 + i * 150, loopInterval),
                               toFixed4(delay + 800, loopInterval),
                               toFixed4(delay + 1500, loopInterval),
                               explosionEnd>>, <<>>),
                    Timeline("sparkler", "animate", "r", 5,
                             <<0, explosionStart, toFixed4(delay + 300, loopInterval),
                               toFixed4(delay + 1000, loopInterval),
                               explosionEnd>>, <<>>) >>) >>

\* The loop draws once per particle. (particleCount is 12 at the only call site,
\* the number of angles COS12 and SIN12 hold.)
generateSparklerEffect(particleCount, maxDistance, delay, loopInterval) ==
    LET P(i) == SparklerParticle(i, maxDistance, delay, loopInterval)
    IN  ForEach(particleCount, P)

generateMatsuriLevel1 ==
    Group("firework-matsuri-level-1", "",
        LET loopInterval == 5000
            explosionDelay == TRAIL_DURATION
        IN  generateTrail(TRAIL_DURATION, 0, loopInterval)
            \o generateSparklerEffect(12, 25, explosionDelay, loopInterval),
        <<>>)

generateMatsuriLevel2 ==
    Group("firework-matsuri-level-2", "",
        LET loopInterval == 4000
            heartDelay == 0
            heartExplosionDelay == heartDelay + TRAIL_DURATION
            starDelay == 600
            starExplosionDelay == starDelay + TRAIL_DURATION
        IN  generateTrail(TRAIL_DURATION, heartDelay, loopInterval)
            \o generateSpark(heartExplosionDelay, loopInterval)
            \o generateShapedParticles(20, 1000, heartExplosionDelay, loopInterval)
            \o generateTrail(TRAIL_DURATION, starDelay, loopInterval)
            \o generateSpark(starExplosionDelay, loopInterval)
            \o generateShapedParticles(20, 1000, starExplosionDelay, loopInterval),
        <<>>)

generateMatsuriLevel3 ==
    Group("firework-matsuri-level-3", "",
        LET loopInterval == 3500
            fireworks == << [delay |-> 0, count |-> 18], [delay |-> 150, count |-> 14],
                            [delay |-> 250, count |-> 14], [delay |-> 400, count |-> 16],
                            [delay |-> 500, count |-> 16], [delay |-> 650, count |-> 12],
                            [delay |-> 750, count |-> 12] >>
            One(fw) ==
                LET explosionDelay == fw.delay + (TRAIL_DURATION * 8) \div 10
                IN  generateTrail((TRAIL_DURATION * 8) \div 10, fw.delay, loopInterval)
                    \o generateSpark(explosionDelay, loopInterval)
                    \o generateParticles(fw.count, 600, explosionDelay, loopInterval)
        IN  ForAll(fireworks, One),
        <<>>)

\* generateWaterSurface: a <line> and a <rect>, neither animated.
generateWaterSurface == << Shape("line", 1, <<>>), Shape("rect", 1, <<>>) >>

generateMatsuriLevel4 ==
    Group("firework-matsuri-level-4", "",
        LET loopInterval == 4500
            fireworks == << [delay |-> 0, count |-> 20], [delay |-> 400, count |-> 16],
                            [delay |-> 700, count |-> 16] >>
            One(fw) ==
                LET explosionDelay == fw.delay + TRAIL_DURATION
                IN  generateTrail(TRAIL_DURATION, fw.delay, loopInterval)
                    \o generateSpark(explosionDelay, loopInterval)
                    \o generateParticles(fw.count, 1000, explosionDelay, loopInterval)
                    \o generateReflectionPoints(fw.count, 1400, explosionDelay + 50, loopInterval)
        IN  generateWaterSurface \o ForAll(fireworks, One),
        <<>>)

generateCoreFlash(duration, delay, loopInterval) ==
    LET flashStart == toFixed4(delay, loopInterval)
        flashEnd == toFixed4(delay + duration, loopInterval)
    IN  << Shape("circle", 1,
                 << Timeline("core-flash", "animate", "r", 5,
                             <<0, flashStart,
                               toFixed4(10 * delay + 3 * duration, 10 * loopInterval),
                               flashEnd, 10000>>, <<>>),
                    Timeline("core-flash", "animate", "opacity", 6,
                             <<0, flashStart,
                               toFixed4(10 * delay + 2 * duration, 10 * loopInterval),
                               toFixed4(2 * delay + duration, 2 * loopInterval),
                               flashEnd, 10000>>, <<>>) >>) >>

RingWave(i, stagger, delay, loopInterval) ==
    LET ringDelay == delay + i * stagger
        ringStart == toFixed4(ringDelay, loopInterval)
        ringEnd == toFixed4(ringDelay + 600, loopInterval)
        grow == toFixed4(ringDelay + 100, loopInterval)
    IN  << Shape("circle", 1,
                 << Timeline("ring-waves", "animate", "r", 4,
                             <<0, ringStart, ringEnd, 10000>>, <<>>),
                    Timeline("ring-waves", "animate", "opacity", 5,
                             <<0, ringStart, grow, ringEnd, 10000>>, <<>>),
                    Timeline("ring-waves", "animate", "stroke-width", 5,
                             <<0, ringStart, grow, ringEnd, 10000>>, <<>>) >>) >>

generateRingWaves(stagger, delay, loopInterval) ==
    LET R(i) == RingWave(i, stagger, delay, loopInterval)
    IN  ForEach(2, R)

generateMatsuriLevel5 ==
    Group("firework-matsuri-level-5", "",
        LET loopInterval == 5500
            mainExplosionDelay == TRAIL_DURATION
            surroundingFireworks ==
                << [delay |-> 100, count |-> 12], [delay |-> 150, count |-> 12],
                   [delay |-> 300, count |-> 14], [delay |-> 350, count |-> 14],
                   [delay |-> 500, count |-> 12], [delay |-> 550, count |-> 12],
                   [delay |-> 700, count |-> 10], [delay |-> 750, count |-> 10],
                   [delay |-> 900, count |-> 10], [delay |-> 950, count |-> 10] >>
            One(fw) ==
                LET explosionDelay == fw.delay + TRAIL_DURATION
                IN  generateTrail(TRAIL_DURATION, fw.delay, loopInterval)
                    \o generateParticles(fw.count, 800, explosionDelay, loopInterval)
        IN  generateTrail(TRAIL_DURATION, 0, loopInterval)
            \o generateSpark(mainExplosionDelay, loopInterval)
            \o generateCoreFlash(250, mainExplosionDelay, loopInterval)
            \o generateRingWaves(120, mainExplosionDelay, loopInterval)
            \o generateParticles(24, 1400, mainExplosionDelay, loopInterval)
            \o generateParticles(16, 1000, mainExplosionDelay + 150, loopInterval)
            \o ForAll(surroundingFireworks, One),
        <<>>)

(***************************************************************************)
(* generators/registry.ts                                                  *)
(***************************************************************************)

\* THEME_REGISTRY[theme][level]({canvasWidth, canvasHeight}).
THEME_REGISTRY(theme, level) ==
    CASE theme = "kata" /\ level = 1 -> generateKataLevel1
      [] theme = "kata" /\ level = 2 -> generateKataLevel2
      [] theme = "kata" /\ level = 3 -> generateKataLevel3
      [] theme = "kata" /\ level = 4 -> generateKataLevel4
      [] theme = "kata" /\ level = 5 -> generateKataLevel5
      [] theme = "matsuri" /\ level = 1 -> generateMatsuriLevel1
      [] theme = "matsuri" /\ level = 2 -> generateMatsuriLevel2
      [] theme = "matsuri" /\ level = 3 -> generateMatsuriLevel3
      [] theme = "matsuri" /\ level = 4 -> generateMatsuriLevel4
      [] theme = "matsuri" /\ level = 5 -> generateMatsuriLevel5

\* A registry lookup without the level 0 case: level 0 gets the level 1 generator.
generateFireworkNoNullCheck(theme, level) ==
    << THEME_REGISTRY(theme, IF level = 0 THEN 1 ELSE level) >>

\* A slip: the registry has no entry for level 5, and no generator is found.
generateFireworkNoLevel5(theme, level) ==
    IF level = 0 \/ level = 5 THEN <<>> ELSE << THEME_REGISTRY(theme, level) >>

\* getGenerator returns null for level 0 and generateFirework then returns '':
\* no group at all. Otherwise the one group the level generator returns.
generateFirework(theme, level) ==
    IF level = 0 THEN <<>> ELSE << THEME_REGISTRY(theme, level) >>

(***************************************************************************)
(* utils/random.ts, generators/svg-background.ts                           *)
(***************************************************************************)

\* Strings are sequences of one-character strings. charCodeAt for the characters
\* that occur in the names used here.
CharCode ==
    [c \in {"a", "b", "o", "c", "t", "d", "e", "m", "&", "<", ">", "\"", "'"} |->
        CASE c = "a" -> 97 [] c = "b" -> 98 [] c = "o" -> 111 [] c = "c" -> 99
          [] c = "t" -> 116 [] c = "d" -> 100 [] c = "e" -> 101 [] c = "m" -> 109 [] c = "&" -> 38 [] c = "<" -> 60 [] c = ">" -> 62
          [] c = "\"" -> 34 [] c = "'" -> 39]

\* hash = (hash << 5) - hash + char, kept to 32 bits, then Math.abs. For names
\* of at most four characters the hash stays below 2^31 and the 32-bit
\* conversion leaves it as it is.
stringToSeed(str) ==
    LET RECURSIVE Hash(_)
        Hash(n) == IF n = 0 THEN 0 ELSE Hash(n - 1) * 32 - Hash(n - 1) + CharCode[str[n]]
    IN  Hash(Len(str))

STARS_DEFAULT_COUNT == 25
STARS_LEGENDARY_COUNT == 35

\* starCount <circle>s, one <animate> (no keyTimes) each. The positions and the
\* begin time are the draws of createSeededRandom(seed), scaled by the canvas.
generateStars(isLegendary, seed, width, height) ==
    LET starCount == IF isLegendary THEN STARS_LEGENDARY_COUNT ELSE STARS_DEFAULT_COUNT
    IN  << Shape("circle", starCount,
                 << Timeline("stars", "animate", "opacity", 3, <<>>,
                             <<seed, width, height>>) >>) >>

\* generateBackground: <defs> and one <rect>.
generateBackground == << Shape("rect", 1, <<>>) >>

generateNightSky(level, username, width, height) ==
    LET isLegendary == (level = 5)
        seed == stringToSeed(username)
    IN  Group("night-sky", "",
              generateBackground \o generateStars(isLegendary, seed, width, height),
              <<>>)

(***************************************************************************)
(* generators/svg-overlay.ts                                               *)
(***************************************************************************)

\* text.replace(/ch/g, rep)
ReplaceAll(text, ch, rep) ==
    LET RECURSIVE R(_)
        R(i) == IF i > Len(text) THEN <<>>
                ELSE (IF text[i] = ch THEN rep ELSE <<text[i]>>) \o R(i + 1)
    IN  R(1)

\* A slip: & is escaped last, so the & of the entities written before it is
\* escaped again.
escapeXmlAmpLast(text) ==
    LET lt   == ReplaceAll(text, "<", <<"&", "l", "t", ";">>)
        gt   == ReplaceAll(lt, ">", <<"&", "g", "t", ";">>)
        quot == ReplaceAll(gt, "\"", <<"&", "q", "u", "o", "t", ";">>)
        apos == ReplaceAll(quot, "'", <<"&", "a", "p", "o", "s", ";">>)
    IN  ReplaceAll(apos, "&", <<"&", "a", "m", "p", ";">>)

escapeXml(text) ==
    LET amp  == ReplaceAll(text, "&", <<"&", "a", "m", "p", ";">>)
        lt   == ReplaceAll(amp, "<", <<"&", "l", "t", ";">>)
        gt   == ReplaceAll(lt, ">", <<"&", "g", "t", ";">>)
        quot == ReplaceAll(gt, "\"", <<"&", "q", "u", "o", "t", ";">>)
    IN  ReplaceAll(quot, "'", <<"&", "a", "p", "o", "s", ";">>)

\* `${commits} commit` or `${commits} commits`
getCommitText(commits) ==
    [count |-> commits, unit |-> IF commits = 1 THEN "commit" ELSE "commits"]

\* Three <text> elements: user name, commit text, level name.
generateUserOverlay(username, commits, levelName, width, height) ==
    Group("user-overlay", "",
          << Shape("text", 3, <<>>) >>,
          << escapeXml(username), getCommitText(commits), escapeXml(levelName) >>)

\* The texts tried: up to MaxText pieces for the user name, up to MaxLevelText
\* for the level name, over one letter and the five special characters.
MaxText == 3
MaxLevelText == 1
XmlAlphabet == {"a", "&", "<", ">", "\"", "'"}
OverlayCalls ==
    { [fn |-> "generateUserOverlay", username |-> u, commits |-> 1, levelName |-> n] :
        u \in UNION { [1..k -> XmlAlphabet] : k \in 0..MaxText },
        n \in UNION { [1..k -> XmlAlphabet] : k \in 0..MaxLevelText } }

CallGenerateUserOverlay ==
    /\ call # None /\ result = None
    /\ call[1].fn = "generateUserOverlay"
    /\ result' = Some(generateUserOverlay(call[1].username, call[1].commits,
                                           call[1].levelName, 400, 200))
    /\ UNCHANGED <<call, levelVars, renderVars, httpVars, fetchVars>>

(***************************************************************************)
(* generators/svg-firework-parts.ts: background fireworks, Niagara         *)
(***************************************************************************)

\* Firework i of count: delay = (i / count) * loopDuration * 0.8, a trail <line>
\* and six particle <circle>s. Times are fractions over 5 * count: the value
\* (delay + ms) / loopDuration is Frac(ms) below. x, y and distance are draws of
\* seededRandom(seed).
BackgroundFirework(i, count, loopDuration, seed) ==
    LET den == 5 * count * loopDuration
        At(ms) == 4 * i * loopDuration + ms * 5 * count
        start == toFixed4(At(0), den)
        trailEnd == toFixed4(At(400), den)
        fadeEnd == toFixed4Min99(At(600), den)
        expStart == toFixed4(At(400), den)
        expEnd == toFixed4(At(900), den)
    IN  << Shape("line", 1,
                 << Timeline("background", "animate", "y2", 4,
                             <<0, start, trailEnd, 10000>>, <<seed, i>>),
                    Timeline("background", "animate", "opacity", 6,
                             <<0, start, toFixed4(At(50), den), trailEnd, fadeEnd, 10000>>,
                             <<>>) >>),
           Shape("circle", 6,
                 << Timeline("background", "animateTransform", "translate", 4,
                             <<0, expStart, expEnd, 10000>>, <<seed, i>>),
                    Timeline("background", "animate", "opacity", 5,
                             <<0, expStart, toFixed4(At(480), den), expEnd, 10000>>,
                             <<>>) >>) >>

generateBackgroundFireworks(count, loopDuration, seed) ==
    LET B(i) == BackgroundFirework(i, count, loopDuration, seed)
    IN  Group("", "background-fireworks", ForEach(count, B), <<>>)

\* The number of iterations of for (i = 0; i < n; i += step).
Steps(n, step) == (n + step - 1) \div step

\* Two wire <line>s, three layers of stream <line>s (every 2nd, every, every 4th
\* stream) and a layer of spark <circle>s (every 2nd stream). Everything random
\* in it is drawn from seededRandom(seed).
generateNiagaraEffect(canvasWidth, canvasHeight, loopDuration, seed) ==
    LET streamSpacing == 3
        streamCount == canvasWidth \div streamSpacing
        Wire == Shape("line", 1,
                      << Timeline("niagara", "animate", "opacity", 3, <<>>, <<>>) >>)
        Streams(n) == Shape("line", n,
                            << Timeline("niagara", "animate", "stroke-dashoffset", 2,
                                        <<>>, <<seed>>) >>)
        Sparks(n) == Shape("circle", n,
                           << Timeline("niagara", "animate", "cy", 2, <<>>, <<seed>>),
                              Timeline("niagara", "animate", "cx", 2, <<>>, <<seed>>),
                              Timeline("niagara", "animate", "opacity", 5,
                                       <<0, 500, 3000, 7000, 10000>>, <<seed>>),
                              Timeline("niagara", "animate", "r", 3,
                                       <<0, 2000, 10000>>, <<seed>>) >>)
    IN  Group("", "niagara-effect",
              << Wire, Wire, Streams(Steps(streamCount, 2)), Streams(streamCount),
                 Streams(Steps(streamCount, 4)), Sparks(Steps(streamCount, 2)) >>,
              <<>>)

(***************************************************************************)
(* generators/svg-generator.ts                                             *)
(***************************************************************************)

CANVAS_DEFAULT_WIDTH == 400
CANVAS_DEFAULT_HEIGHT == 200

Min(a, b) == IF a < b THEN a ELSE b

\* The layers of one document, each the list of children it adds ('' adds none).
\* theme is "undefined" when left out; isExtra is None when left out, and then
\* FALSE (its default).
FireworksSVGLayers(config) ==
    LET width == IF config.width = None THEN CANVAS_DEFAULT_WIDTH ELSE config.width[1]
        height == IF config.height = None THEN CANVAS_DEFAULT_HEIGHT ELSE config.height[1]
        theme == IF config.theme = "undefined" THEN "kata" ELSE config.theme
        isExtra == IF config.isExtra = None THEN FALSE ELSE config.isExtra[1]
        level == config.level
        bgFireworksCount == IF level > 0 THEN Min(level + 1, 4) ELSE 0
    IN  [width |-> width, height |-> height, level |-> level, isExtra |-> isExtra,
         nightSky |-> << generateNightSky(level, config.username, width, height) >>,
         fireworks |-> generateFirework(theme, level),
         overlay |-> << generateUserOverlay(config.username, config.commits,
                                            config.levelName, width, height) >>,
         bgFireworks |-> IF bgFireworksCount > 0
                         THEN << generateBackgroundFireworks(bgFireworksCount, 4000,
                                                             level * 17) >>
                         ELSE <<>>,
         niagara |-> IF isExtra
                     THEN << generateNiagaraEffect(width, height, 4000, 42) >>
                     ELSE <<>>]

\* A slip: the Niagara layer is only added next to fireworks.
generateFireworksSVGNiagaraNeedsLevel(config) ==
    LET l == FireworksSVGLayers(config)
    IN  [width |-> l.width, height |-> l.height,
         children |-> l.nightSky \o l.bgFireworks \o l.fireworks
                      \o (IF l.level > 0 THEN l.niagara ELSE <<>>) \o l.overlay]

\* A slip: the waterfall is drawn last, over the user overlay.
generateFireworksSVGNiagaraOnTop(config) ==
    LET l == FireworksSVGLayers(config)
    IN  [width |-> l.width, height |-> l.height,
         children |-> l.nightSky \o l.bgFireworks \o l.fireworks \o l.overlay \o l.niagara]

\* The result is the <svg> element: its size and its children in document order.
generateFireworksSVG(config) ==
    LET l == FireworksSVGLayers(config)
    IN  [width |-> l.width, height |-> l.height,
         children |-> l.nightSky \o l.bgFireworks \o l.fireworks \o l.niagara \o l.overlay]

\* The configurations generateFireworksSVG is called with.
Usernames == { <<"o", "c", "t", "o">> }
Themes == {"kata", "matsuri"}
Levels == 0..5
\* An optional number is <<>> when left out and <<n>> when given.
CanvasSizes == { <<None, None>>, <<Some(200), Some(100)>>, <<Some(800), Some(400)>> }
CommitsOfLevel == <<0, 1, 4, 8, 16, 30>>

FireworksSVGConfigs ==
    { [username |-> u, commits |-> CommitsOfLevel[l + 1], level |-> l,
       levelName |-> getLevelName(l, t), width |-> wh[1], height |-> wh[2],
       theme |-> t, isExtra |-> x] :
        u \in Usernames, l \in Levels, t \in Themes \cup {"undefined"},
        wh \in CanvasSizes, x \in {None, Some(FALSE), Some(TRUE)} }

\* One call of generateFireworksSVG.
CallGenerateFireworksSVG ==
    \E config \in FireworksSVGConfigs :
        /\ cfg' = Some(config)
        /\ svg' = Some(generateFireworksSVG(config))
        /\ UNCHANGED <<helperVars, levelVars, httpVars, fetchVars>>

(***************************************************************************)
(* services/theme-selector.ts, services/github.ts                          *)
(***************************************************************************)

isValidTheme(theme) == theme = "kata" \/ theme = "matsuri"

\* selectThemeByDate(new Date()): the day of the year decides.
selectThemeByDate(dayOfYear) == IF dayOfYear % 2 = 0 THEN "kata" ELSE "matsuri"

\* What the upstream does with the one POST fetchTodayContributions sends:
\*   throws      the fetch rejects with an Error of this name and message:
\*               "AbortError" when the timeout aborted it, any other name for
\*               a network failure
\*   status      the response came with a status outside 200..299
\*   invalid     the body is not JSON, response.json() rejects
\*   json        a GraphQL body: errors (a list of messages), data (absent, or
\*               with user null, or with user and its weeks of daily counts)
ReplyThrows(name, message) == [kind |-> "throws", name |-> name, message |-> message]
ReplyStatus(status) == [kind |-> "status", status |-> status]
ReplyInvalid == [kind |-> "invalid"]
ReplyJson(errors, data) == [kind |-> "json", errors |-> errors, data |-> data]
DataUserNull == Some([user |-> None])
DataUser(weeks) == Some([user |-> Some(weeks)])

ApiError(message) == [ok |-> FALSE, error |-> [type |-> "API_ERROR", message |-> message]]
UserNotFound(username) ==
    [ok |-> FALSE, error |-> [type |-> "USER_NOT_FOUND", username |-> username]]
Ok(value) == [ok |-> TRUE, value |-> value]

\* A fetch that reports a non-2xx status as an unknown user.
fetchTodayContributionsStatusAsNotFound(username, reply) ==
    CASE reply.kind = "throws" ->
            IF reply.name = "AbortError" THEN ApiError(<<"Request timeout">>)
            ELSE ApiError(<<reply.message>>)
      [] reply.kind = "status" -> UserNotFound(username)
      [] reply.kind = "invalid" -> ApiError(<<"Unexpected token">>)
      [] reply.kind = "json" ->
            IF Len(reply.errors) > 0 THEN ApiError(<<reply.errors[1]>>)
            ELSE IF reply.data = None \/ reply.data[1].user = None
                 THEN UserNotFound(username)
            ELSE Ok(0)

\* A fetch that looks at the user before it looks at the GraphQL errors.
fetchTodayContributionsUserFirst(username, reply) ==
    CASE reply.kind = "throws" ->
            IF reply.name = "AbortError" THEN ApiError(<<"Request timeout">>)
            ELSE ApiError(<<reply.message>>)
      [] reply.kind = "status" -> ApiError(<<"HTTP", reply.status>>)
      [] reply.kind = "invalid" -> ApiError(<<"Unexpected token">>)
      [] reply.kind = "json" ->
            IF reply.data = None \/ reply.data[1].user = None
            THEN UserNotFound(username)
            ELSE IF Len(reply.errors) > 0 THEN ApiError(<<reply.errors[1]>>)
            ELSE Ok(0)

\* fetchTodayContributions(username), given what the upstream does.
fetchTodayContributions(username, reply) ==
    CASE reply.kind = "throws" ->
            IF reply.name = "AbortError" THEN ApiError(<<"Request timeout">>)
            ELSE ApiError(<<reply.message>>)
      [] reply.kind = "status" -> ApiError(<<"HTTP", reply.status>>)
      [] reply.kind = "invalid" -> ApiError(<<"Unexpected token">>)
      [] reply.kind = "json" ->
            IF Len(reply.errors) > 0 THEN ApiError(<<reply.errors[1]>>)
            ELSE IF reply.data = None \/ reply.data[1].user = None
                 THEN UserNotFound(username)
            ELSE LET weeks == reply.data[1].user[1]
                 IN  \* weeks[weeks.length - 1] of an empty list is undefined and
                     \* reading a property of it throws a TypeError: the catch
                     \* block turns it into an API_ERROR.
                     IF Len(weeks) = 0 THEN ApiError(<<"Cannot read properties of undefined">>)
                     ELSE IF Len(weeks[Len(weeks)]) = 0
                          THEN ApiError(<<"Cannot read properties of undefined">>)
                     ELSE Ok(weeks[Len(weeks)][Len(weeks[Len(weeks)])])

(***************************************************************************)
(* index.ts                                                                *)
(***************************************************************************)

MIN_WIDTH == 200
MAX_WIDTH == 800
MIN_HEIGHT == 100
MAX_HEIGHT == 400
DEFAULT_WIDTH == 400
DEFAULT_HEIGHT == 200
CACHE_TTL_FIREWORKS == 3600
CACHE_TTL_DEMO == 31536000

\* Number(text) for the query texts used here: is it NaN, is it an integer, and
\* its value when it is an integer.
JsNumber(text) ==
    CASE text = "abc" -> [isNaN |-> TRUE,  isInteger |-> FALSE, value |-> 0]
      [] text = "2.5" -> [isNaN |-> FALSE, isInteger |-> FALSE, value |-> 2]
      [] text = "-1"  -> [isNaN |-> FALSE, isInteger |-> TRUE,  value |-> 0 - 1]
      [] text = "0"   -> [isNaN |-> FALSE, isInteger |-> TRUE,  value |-> 0]
      [] text = "5"   -> [isNaN |-> FALSE, isInteger |-> TRUE,  value |-> 5]
      [] text = "6"   -> [isNaN |-> FALSE, isInteger |-> TRUE,  value |-> 6]
      [] text = "30"  -> [isNaN |-> FALSE, isInteger |-> TRUE,  value |-> 30]
      [] text = "99"  -> [isNaN |-> FALSE, isInteger |-> TRUE,  value |-> 99]
      [] text = "199" -> [isNaN |-> FALSE, isInteger |-> TRUE,  value |-> 199]
      [] text = "400" -> [isNaN |-> FALSE, isInteger |-> TRUE,  value |-> 400]
      [] text = "401" -> [isNaN |-> FALSE, isInteger |-> TRUE,  value |-> 401]
      [] text = "800" -> [isNaN |-> FALSE, isInteger |-> TRUE,  value |-> 800]
      [] text = "801" -> [isNaN |-> FALSE, isInteger |-> TRUE,  value |-> 801]

\* A parse result: success with the parsed value (None for undefined), or failure.
ParseOk(value) == [success |-> TRUE, value |-> value]
ParseFail == [success |-> FALSE, value |-> None]

\* A number schema that lost its .max(): any integer from min up passes.
zCoerceIntNoMax(param, min, max, dflt) ==
    IF param = None THEN ParseOk(dflt)
    ELSE LET n == JsNumber(param[1])
         IN  IF n.isNaN \/ ~n.isInteger THEN ParseFail
             ELSE IF min # None /\ n.value < min[1] THEN ParseFail
             ELSE ParseOk(Some(n.value))

\* z.coerce.number().int().min(min).max(max).optional(), with .default(dflt) when
\* dflt is given. param is None when the query lacks the parameter, else its text.
zCoerceInt(param, min, max, dflt) ==
    IF param = None THEN ParseOk(dflt)
    ELSE LET n == JsNumber(param[1])
         IN  IF n.isNaN \/ ~n.isInteger THEN ParseFail
             ELSE IF min # None /\ n.value < min[1] THEN ParseFail
             ELSE IF max # None /\ n.value > max[1] THEN ParseFail
             ELSE ParseOk(Some(n.value))

\* z.string().min(1)
zStringMin1(param) ==
    IF param = None THEN ParseFail
    ELSE IF Len(param[1]) < 1 THEN ParseFail
    ELSE ParseOk(param)

\* fireworksQuerySchema: parameters it does not name are dropped unseen.
fireworksQuerySchema(query) ==
    LET user == zStringMin1(query.user)
        width == zCoerceInt(query.width, Some(MIN_WIDTH), Some(MAX_WIDTH), Some(DEFAULT_WIDTH))
        height == zCoerceInt(query.height, Some(MIN_HEIGHT), Some(MAX_HEIGHT), Some(DEFAULT_HEIGHT))
    IN  IF user.success /\ width.success /\ height.success
        THEN [success |-> TRUE,
              data |-> [user |-> user.value[1], width |-> width.value[1],
                        height |-> height.value[1], theme |-> query.theme]]
        ELSE [success |-> FALSE, data |-> None]

demoQuerySchema(query) ==
    LET commits == zCoerceInt(query.commits, Some(0), None, Some(8))
        level == zCoerceInt(query.level, Some(0), Some(5), None)
        width == zCoerceInt(query.width, Some(MIN_WIDTH), Some(MAX_WIDTH), Some(DEFAULT_WIDTH))
        height == zCoerceInt(query.height, Some(MIN_HEIGHT), Some(MAX_HEIGHT), Some(DEFAULT_HEIGHT))
    IN  IF commits.success /\ level.success /\ width.success /\ height.success
        THEN [success |-> TRUE,
              data |-> [commits |-> commits.value[1], level |-> level.value,
                        user |-> query.user, width |-> width.value[1],
                        height |-> height.value[1], theme |-> query.theme]]
        ELSE [success |-> FALSE, data |-> None]

\* A resolveTheme that never looks at the parameter.
resolveThemeAlwaysByDate(themeParam, dayOfYear) == selectThemeByDate(dayOfYear)

\* themeParam is None when the query has no theme.
resolveTheme(themeParam, dayOfYear) ==
    IF themeParam # None /\ isValidTheme(themeParam[1]) THEN themeParam[1]
    ELSE selectThemeByDate(dayOfYear)

\* c.json(body, status)
JsonResponse(error, status) ==
    [status |-> status, contentType |-> "application/json", cacheControl |-> <<>>,
     body |-> [kind |-> "json", error |-> error]]

\* A 200 response whose body is the string generateFireworksSVG(config) returned.
\* The body is kept as that call's argument.
SvgResponse(config, cacheControl) ==
    [status |-> 200, contentType |-> "image/svg+xml", cacheControl |-> cacheControl,
     body |-> [kind |-> "svg", config |-> config]]

\* What answering one request did besides building the response: cache.match
\* was called, cache.put was called, the upstream was called, the SVG generated.
Effects(cacheRead, cacheWritten, upstreamCalled, svgGenerated) ==
    [cacheRead |-> cacheRead, cacheWritten |-> cacheWritten,
     upstreamCalled |-> upstreamCalled, svgGenerated |-> svgGenerated]

\* The edge cache (caches.default) holds at most one response per request URL.
\* cache.match(request) answers with the entry of that URL, if there is one.
getCachedResponseAlwaysMiss(request) == None
getCachedResponse(request) ==
    IF \E e \in cache : e.request = request
    THEN Some((CHOOSE e \in cache : e.request = request).response)
    ELSE None

\* cache.put(request, response) once the edge has carried it out: the entry of
\* that URL is added or replaced, the entries of other URLs stay.
cachePut(request, response) ==
    { e \in cache : e.request # request }
        \cup { [request |-> request, response |-> response] }

\* One invocation of the Worker. Both handlers are async functions: each await
\* hands control back, so that the steps of other invocations run in between.
\*   idle       no request
\*   matching   awaiting cache.match(request)
\*   fetching   awaiting fetchTodayContributions(user); the theme was resolved
\*              before, on day dayOfYear
\*   putting    the response was returned; ctx.waitUntil holds the cache.put the
\*              handler never awaited
\* late tells that the request arrived when the last answer given was one
\* without a count (the fallback or the 404) for the same URL.
Handlers == {"a", "b"}
HandlerIdle ==
    [pc |-> "idle", request |-> None, dayOfYear |-> None, response |-> None,
     late |-> FALSE]
HandlerMatching(request, late) ==
    [pc |-> "matching", request |-> Some(request), dayOfYear |-> None,
     response |-> None, late |-> late]
HandlerFetching(request, dayOfYear, late) ==
    [pc |-> "fetching", request |-> Some(request), dayOfYear |-> Some(dayOfYear),
     response |-> None, late |-> late]
HandlerPutting(request, response) ==
    [pc |-> "putting", request |-> Some(request), dayOfYear |-> None,
     response |-> Some(response), late |-> FALSE]

\* Which of two idle invocations takes a request makes no difference: the first.
Free(h) == handlers[h].pc = "idle" /\ (h = "b" => handlers["a"].pc # "idle")

\* cacheResponse(ctx, request, response) in invocation h: the cache.put is handed
\* to ctx.waitUntil and not awaited, the cache itself is as it was.
cacheResponse(h, request, response) ==
    [handlers EXCEPT ![h] = HandlerPutting(request, response)]

\* The requests tried. A query parameter is None when the URL lacks it, else
\* Some(text); user texts are character sequences. extra is the parameter the
\* README lists for /api/demo.
Query(user, width, height, theme, commits, level) ==
    [user |-> user, width |-> width, height |-> height, theme |-> theme,
     commits |-> commits, level |-> level, extra |-> None]
QueryWithExtra(query, extra) == [query EXCEPT !.extra = extra]
QuerySizes ==
    { <<None, None>>, <<Some("800"), Some("400")>>, <<Some("801"), None>>,
      <<None, Some("99")>>, <<Some("2.5"), None>> }
FireworksRequests ==
    { [endpoint |-> "/api/fireworks",
       query |-> Query(u, wh[1], wh[2], t, None, None)] :
        u \in {None, Some(<<>>), Some(<<"o", "c", "t", "o">>)},
        wh \in QuerySizes, t \in {None} }
    \cup
    { [endpoint |-> "/api/fireworks",
       query |-> Query(Some(<<"o", "c", "t", "o">>), None, None, Some("matsuri"), None, None)] }
    \cup
    { [endpoint |-> "/api/fireworks",
       query |-> Query(Some(<<"o", "c", "t", "o">>), None, None, None, Some("-1"), None)] }
DemoRequests ==
    { [endpoint |-> "/api/demo",
       query |-> Query(None, wh[1], wh[2], None, c, None)] :
        wh \in QuerySizes, c \in {None, Some("-1"), Some("2.5"), Some("30")} }
    \cup
    { [endpoint |-> "/api/demo",
       query |-> Query(None, None, None, Some("kata"), Some("30"), Some("0"))] }
    \cup
    { [endpoint |-> "/api/demo",
       query |-> Query(None, None, None, None, Some("0"), l)] : l \in {None, Some("5")} }
    \cup
    { [endpoint |-> "/api/demo",
       query |-> QueryWithExtra(Query(None, None, None, Some("kata"), None, Some("5")),
                                extra)] :
        extra \in {Some("true"), Some("1")} }

\* What the upstream may do, and the days the requests are handled on.
UpstreamReplies ==
    { ReplyThrows("AbortError", "The operation was aborted"),
      ReplyThrows("TypeError", "fetch failed"),
      ReplyStatus(500), ReplyInvalid,
      ReplyJson(<<"Could not resolve to a User">>, DataUserNull),
      ReplyJson(<<>>, DataUserNull),
      ReplyJson(<<>>, DataUser(<<>>)),
      ReplyJson(<<>>, DataUser(<< <<4, 0>> >>)),
      ReplyJson(<<>>, DataUser(<< <<0, 1>>, <<2, 30>> >>)),
      ReplyJson(<<>>, DataUser(<< <<51>> >>)) }
\* Day 360 is a tenth day of the year, day 365 is not.
DaysOfYear == {360, 365}

\* What the world outside does in one run: the URLs the clients ask for, what the
\* upstream may reply and the days the requests are handled on.
World(urls, replies, days) == [urls |-> urls, replies |-> replies, days |-> days]
NoWorld == World({}, {}, {})
OctoRequest ==
    [endpoint |-> "/api/fireworks",
     query |-> Query(Some(<<"o", "c", "t", "o">>), None, None, None, None, None)]
DemoThirtyRequest ==
    [endpoint |-> "/api/demo", query |-> Query(None, None, None, None, Some("30"), None)]
OctoTooWideRequest ==
    [endpoint |-> "/api/fireworks",
     query |-> Query(Some(<<"o", "c", "t", "o">>), Some("801"), None, None, None, None)]
Worlds ==
    { World({r}, UpstreamReplies, DaysOfYear) : r \in FireworksRequests \cup DemoRequests }
    \cup { World({OctoRequest, DemoThirtyRequest, OctoTooWideRequest},
                 { ReplyJson(<<>>, DataUser(<< <<0, 1>>, <<2, 30>> >>)),
                   ReplyThrows("AbortError", "The operation was aborted") }, {360}) }

\* Nothing was asked yet.
HttpStart ==
    /\ cache = {} /\ handlers = [h \in Handlers |-> HandlerIdle]
    /\ req = None /\ resp = None /\ fetched = None /\ effects = None
    /\ refused = {}
HttpIdle == HttpStart /\ world = NoWorld

\* The last answer given was one without a count, for this URL.
AnsweredWithoutCount(request) ==
    /\ req = Some(request)
    /\ fetched # None
    /\ ~fetched[1].result.ok

\* GET /api/fireworks: the validator, then the handler up to its first await.
GetFireworks(h) ==
    \E request \in world.urls :
        LET parsed == fireworksQuerySchema(request.query)
        IN  /\ Free(h)
            /\ request.endpoint = "/api/fireworks"
            /\ IF ~parsed.success
               THEN /\ req' = Some(request)
                    /\ resp' = Some(JsonResponse("user parameter is required", 400))
                    /\ fetched' = None
                    /\ effects' = Some(Effects(FALSE, FALSE, FALSE, FALSE))
                    /\ refused' = refused \cup {request}
                    /\ handlers' = handlers
               ELSE /\ handlers' = [handlers EXCEPT
                            ![h] = HandlerMatching(request, AnsweredWithoutCount(request))]
                    /\ UNCHANGED <<req, resp, fetched, effects, refused>>
            /\ UNCHANGED <<cache, world, helperVars, levelVars, renderVars, fetchVars>>

\* cache.match answers: a hit is returned as it is; after a miss the theme is
\* resolved and the upstream is asked, the second await.
FireworksCacheAnswered(h) ==
    LET request == handlers[h].request[1]
        cached == getCachedResponse(request)
    IN  /\ handlers[h].pc = "matching"
        /\ request.endpoint = "/api/fireworks"
        /\ IF cached # None
           THEN /\ req' = Some(request)
                /\ resp' = cached
                /\ fetched' = None
                /\ effects' = Some(Effects(TRUE, FALSE, FALSE, FALSE))
                /\ handlers' = [handlers EXCEPT ![h] = HandlerIdle]
           ELSE /\ \E dayOfYear \in world.days :
                        handlers' = [handlers EXCEPT
                            ![h] = HandlerFetching(request, dayOfYear, handlers[h].late)]
                /\ UNCHANGED <<req, resp, fetched, effects>>
        /\ UNCHANGED <<cache, world, refused, helperVars, levelVars, renderVars, fetchVars>>

\* A live handler that stores the fallback it answers an API error with.
FireworksFetchAnsweredCachingFallback(h) ==
    \E reply \in world.replies :
        LET request == handlers[h].request[1]
            dayOfYear == handlers[h].dayOfYear[1]
            parsed == fireworksQuerySchema(request.query)
            fetchResult == fetchTodayContributions(parsed.data.user, reply)
            theme == resolveTheme(parsed.data.theme, dayOfYear)
            config == [username |-> parsed.data.user, commits |-> 0, level |-> 0,
                       levelName |-> getLevelName(0, theme),
                       width |-> Some(parsed.data.width),
                       height |-> Some(parsed.data.height),
                       theme |-> theme, isExtra |-> None]
            response == SvgResponse(config, <<"public", CACHE_TTL_FIREWORKS>>)
        IN  /\ handlers[h].pc = "fetching"
            /\ ~fetchResult.ok /\ fetchResult.error.type = "API_ERROR"
            /\ req' = Some(request)
            /\ fetched' = Some([reply |-> reply, result |-> fetchResult,
                                 dayOfYear |-> dayOfYear])
            /\ resp' = Some(response)
            /\ effects' = Some(Effects(TRUE, TRUE, TRUE, TRUE))
            /\ handlers' = cacheResponse(h, request, response)
            /\ UNCHANGED <<cache, world, refused, helperVars, levelVars, renderVars, fetchVars>>

\* fetchTodayContributions answers: the 404, the fallback, or the SVG of the
\* count, which alone is handed to cacheResponse; then the response is returned.
FireworksFetchAnswered(h) ==
    \E reply \in world.replies :
        LET request == handlers[h].request[1]
            dayOfYear == handlers[h].dayOfYear[1]
            q == fireworksQuerySchema(request.query).data
            theme == resolveTheme(q.theme, dayOfYear)
            fetchResult == fetchTodayContributions(q.user, reply)
            Config(commits, level) ==
                [username |-> q.user, commits |-> commits, level |-> level,
                 levelName |-> getLevelName(level, theme),
                 width |-> Some(q.width), height |-> Some(q.height),
                 theme |-> theme, isExtra |-> None]
            cacheControl == <<"public", CACHE_TTL_FIREWORKS>>
        IN  /\ handlers[h].pc = "fetching"
            /\ req' = Some(request)
            /\ fetched' = Some([reply |-> reply, result |-> fetchResult,
                                 dayOfYear |-> dayOfYear])
            /\ IF ~fetchResult.ok /\ fetchResult.error.type = "USER_NOT_FOUND"
               THEN /\ resp' = Some(JsonResponse("User not found", 404))
                    /\ effects' = Some(Effects(TRUE, FALSE, TRUE, FALSE))
                    /\ handlers' = [handlers EXCEPT ![h] = HandlerIdle]
               ELSE IF ~fetchResult.ok
               THEN /\ resp' = Some(SvgResponse(Config(0, 0), cacheControl))
                    /\ effects' = Some(Effects(TRUE, FALSE, TRUE, TRUE))
                    /\ handlers' = [handlers EXCEPT ![h] = HandlerIdle]
               ELSE LET commits == fetchResult.value
                        response == SvgResponse(Config(commits, calculateLevel(commits)),
                                                cacheControl)
                    IN  /\ resp' = Some(response)
                        /\ effects' = Some(Effects(TRUE, TRUE, TRUE, TRUE))
                        /\ handlers' = cacheResponse(h, request, response)
            /\ UNCHANGED <<cache, world, refused, helperVars, levelVars, renderVars, fetchVars>>

\* GET /api/demo: the validator, then the handler up to its await.
GetDemo(h) ==
    \E request \in world.urls :
        LET parsed == demoQuerySchema(request.query)
        IN  /\ Free(h)
            /\ request.endpoint = "/api/demo"
            /\ IF ~parsed.success
               THEN /\ req' = Some(request)
                    /\ resp' = Some(JsonResponse("Invalid parameters", 400))
                    /\ fetched' = None
                    /\ effects' = Some(Effects(FALSE, FALSE, FALSE, FALSE))
                    /\ refused' = refused \cup {request}
                    /\ handlers' = handlers
               ELSE /\ handlers' = [handlers EXCEPT ![h] = HandlerMatching(request, FALSE)]
                    /\ UNCHANGED <<req, resp, fetched, effects, refused>>
            /\ UNCHANGED <<cache, world, helperVars, levelVars, renderVars, fetchVars>>

\* A demo handler that asks the upstream for the demo user's count before it
\* answers.
DemoCacheAnsweredFetching(h) ==
    \E reply \in UpstreamReplies, dayOfYear \in world.days :
        LET request == handlers[h].request[1]
        IN  /\ handlers[h].pc = "matching"
            /\ request.endpoint = "/api/demo"
            /\ req' = Some(request)
            /\ fetched' = Some([reply |-> reply,
                                 result |-> fetchTodayContributions(<<"d", "e", "m", "o">>,
                                                                    reply),
                                 dayOfYear |-> dayOfYear])
            /\ resp' = Some(JsonResponse("Invalid parameters", 400))
            /\ effects' = Some(Effects(TRUE, FALSE, TRUE, FALSE))
            /\ handlers' = [handlers EXCEPT ![h] = HandlerIdle]
            /\ UNCHANGED <<cache, world, refused, helperVars, levelVars, renderVars, fetchVars>>

\* cache.match answers: a hit is returned as it is; after a miss the SVG is
\* generated, handed to cacheResponse and returned. There is no upstream to call.
DemoCacheAnswered(h) ==
    LET request == handlers[h].request[1]
        cached == getCachedResponse(request)
    IN  /\ handlers[h].pc = "matching"
        /\ request.endpoint = "/api/demo"
        /\ req' = Some(request)
        /\ fetched' = None
        /\ IF cached # None
           THEN /\ resp' = cached
                /\ effects' = Some(Effects(TRUE, FALSE, FALSE, FALSE))
                /\ handlers' = [handlers EXCEPT ![h] = HandlerIdle]
           ELSE \E dayOfYear \in world.days :
                LET q == demoQuerySchema(request.query).data
                    displayName == IF q.user = None \/ q.user = Some(<<>>)
                                   THEN <<"d", "e", "m", "o">> ELSE q.user[1]
                    theme == resolveTheme(q.theme, dayOfYear)
                    level == IF q.level # None THEN q.level[1]
                             ELSE calculateLevel(q.commits)
                    config == [username |-> displayName, commits |-> q.commits,
                               level |-> level, levelName |-> getLevelName(level, theme),
                               width |-> Some(q.width), height |-> Some(q.height),
                               theme |-> theme, isExtra |-> None]
                    response == SvgResponse(config,
                                            <<"public", CACHE_TTL_DEMO, "immutable">>)
                IN  /\ resp' = Some(response)
                    /\ effects' = Some(Effects(TRUE, TRUE, FALSE, TRUE))
                    /\ handlers' = cacheResponse(h, request, response)
        /\ UNCHANGED <<cache, world, refused, helperVars, levelVars, renderVars, fetchVars>>

\* The edge carries out a cache.put that ctx.waitUntil holds. The puts of two
\* invocations are carried out in either order.
CachePutStored(h) ==
    /\ handlers[h].pc = "putting"
    /\ cache' = cachePut(handlers[h].request[1], handlers[h].response[1])
    /\ handlers' = [handlers EXCEPT ![h] = HandlerIdle]
    /\ UNCHANGED <<req, resp, fetched, effects, refused, world,
                   helperVars, levelVars, renderVars, fetchVars>>

\* The edge drops an entry: its max-age ran out, or it was evicted.
CacheExpire ==
    \E e \in cache :
        /\ cache' = cache \ {e}
        /\ UNCHANGED <<req, resp, fetched, effects, refused, handlers, world,
                       helperVars, levelVars, renderVars, fetchVars>>

(***************************************************************************)
(* generators/svg-helpers.ts: toKeyTime, toKeyTimes                        *)
(***************************************************************************)

\* Times and loop intervals are whole numbers of quarter seconds, so that they
\* and the ties of their quotients are exact binary fractions.
MaxTime == 12
MaxLoop == 8
MaxArrayTime == 6
MaxTimes == 3

RECURSIVE Pow10(_)
Pow10(p) == IF p = 0 THEN 1 ELSE 10 * Pow10(p - 1)

\* Math.min(time / loopInterval, 0.99).toFixed(p), as the integer its digits
\* spell: the string denotes that integer over 10^p.
NormalizedFixed(time, loopInterval, p) ==
    IF time * 100 >= 99 * loopInterval
    THEN RoundHalfUp(99 * Pow10(p), 100)
    ELSE RoundHalfUp(time * Pow10(p), loopInterval)

\* A slip: the quotient is formatted without the clamp.
toKeyTimeNoClamp(time, loopInterval, precision) ==
    LET p == IF precision = None THEN 4 ELSE precision[1]
    IN  [digits |-> RoundHalfUp(time * Pow10(p), loopInterval), precision |-> p]

\* precision is None when left out. The string returned has p decimals.
toKeyTime(time, loopInterval, precision) ==
    LET p == IF precision = None THEN 4 ELSE precision[1]
    IN  [digits |-> NormalizedFixed(time, loopInterval, p), precision |-> p]

\* A slip: any entry at or beyond the loop interval becomes 1.
toKeyTimesOneAnywhere(times, loopInterval, precision) ==
    LET p == IF precision = None THEN 4 ELSE precision[1]
    IN  [values |-> [i \in 1..Len(times) |->
                        IF times[i] >= loopInterval
                        THEN Pow10(p)
                        ELSE NormalizedFixed(times[i], loopInterval, p)],
         precision |-> p]

\* The numbers returned, each as the integer it is over 10^p (1 is 10^p).
toKeyTimes(times, loopInterval, precision) ==
    LET p == IF precision = None THEN 4 ELSE precision[1]
    IN  [values |-> [i \in 1..Len(times) |->
                        IF i = Len(times) /\ times[i] >= loopInterval
                        THEN Pow10(p)
                        ELSE NormalizedFixed(times[i], loopInterval, p)],
         precision |-> p]

\* The calls tried.
Precisions == {None, Some(0), Some(1), Some(2), Some(6)}
ToKeyTimeCalls ==
    { [fn |-> "toKeyTime", time |-> t, loopInterval |-> l, precision |-> p] :
        t \in 0..MaxTime, l \in 1..MaxLoop, p \in Precisions }
ToKeyTimesCalls ==
    { [fn |-> "toKeyTimes", times |-> ts, loopInterval |-> l, precision |-> p] :
        ts \in UNION { [1..n -> 0..MaxArrayTime] : n \in 0..MaxTimes },
        l \in 1..MaxLoop, p \in {None, Some(0), Some(1), Some(2)} }

CallToKeyTime ==
    /\ call # None /\ result = None
    /\ call[1].fn = "toKeyTime"
    /\ result' = Some(toKeyTime(call[1].time, call[1].loopInterval, call[1].precision))
    /\ UNCHANGED <<call, levelVars, renderVars, httpVars, fetchVars>>

CallToKeyTimes ==
    /\ call # None /\ result = None
    /\ call[1].fn = "toKeyTimes"
    /\ result' = Some(toKeyTimes(call[1].times, call[1].loopInterval, call[1].precision))
    /\ UNCHANGED <<call, levelVars, renderVars, httpVars, fetchVars>>

(***************************************************************************)
(* utils/date.ts, services/theme-selector.ts: the theme of a calendar date *)
(***************************************************************************)

\* A Date is kept as its calendar fields in the time zone of the runtime, which
\* is UTC on the edge: [year, month (1..12), day, hour].
FirstYear == 2023
LastYear == 2024

\* The Gregorian calendar that new Date(year, monthIndex, day) follows.
isLeapYear(year) == (year % 4 = 0 /\ year % 100 # 0) \/ year % 400 = 0
DaysInMonth(year, month) ==
    CASE month = 2 -> IF isLeapYear(year) THEN 29 ELSE 28
      [] month \in {4, 6, 9, 11} -> 30
      [] OTHER -> 31

\* date.getTime() - new Date(date.getFullYear(), 0, 0).getTime(), in hours:
\* the time since midnight of 31 December of the year before.
RECURSIVE DaysBeforeMonth(_, _)
DaysBeforeMonth(year, month) ==
    IF month = 1 THEN 0 ELSE DaysBeforeMonth(year, month - 1) + DaysInMonth(year, month - 1)
HoursSinceStart(date) == (DaysBeforeMonth(date.year, date.month) + date.day) * 24 + date.hour

\* getDayOfYear(date): Math.floor(diff / oneDay).
getDayOfYear(date) == HoursSinceStart(date) \div 24

\* The same time of day one calendar day later.
NextDay(date) ==
    IF date.day < DaysInMonth(date.year, date.month) THEN [date EXCEPT !.day = @ + 1]
    ELSE IF date.month < 12 THEN [date EXCEPT !.month = @ + 1, !.day = 1]
    ELSE [date EXCEPT !.year = @ + 1, !.month = 1, !.day = 1]

Dates ==
    { [year |-> y, month |-> m, day |-> d, hour |-> h] :
        y \in FirstYear..LastYear, m \in 1..12, d \in 1..31, h \in {0, 23} }
CalendarDates == { date \in Dates : date.day <= DaysInMonth(date.year, date.month) }
ThemeParams == {None, Some(""), Some("kata"), Some("matsuri"), Some("auto"), Some("KATA")}
ResolveThemeCalls ==
    { [fn |-> "resolveTheme", themeParam |-> t, date |-> date] :
        t \in ThemeParams, date \in CalendarDates }
SelectThemeByDateCalls ==
    { [fn |-> "selectThemeByDate", date |-> date] : date \in CalendarDates }

\* resolveTheme(themeParam) called while the clock shows date.
CallResolveTheme ==
    /\ call # None /\ result = None
    /\ call[1].fn = "resolveTheme"
    /\ result' = Some(resolveTheme(call[1].themeParam, getDayOfYear(call[1].date)))
    /\ UNCHANGED <<call, levelVars, renderVars, httpVars, fetchVars>>

\* selectThemeByDate(date), and selectThemeByDate of the day after.
CallSelectThemeByDate ==
    /\ call # None /\ result = None
    /\ call[1].fn = "selectThemeByDate"
    /\ result' = Some([today |-> selectThemeByDate(getDayOfYear(call[1].date)),
                       tomorrow |-> selectThemeByDate(getDayOfYear(NextDay(call[1].date)))])
    /\ UNCHANGED <<call, levelVars, renderVars, httpVars, fetchVars>>

(***************************************************************************)
(* services/github.ts: one call of fetchTodayContributions, step by step   *)
(***************************************************************************)

DEFAULT_TIMEOUT_MS == 10000
\* The clock of the model advances in steps of TickMs milliseconds.
TickMs == 2500

\* createGitHubService(token, options).fetchTodayContributions(username);
\* timeoutMs is None when the options give none.
FetchCalls ==
    { [fn |-> "fetchTodayContributions", username |-> u, timeoutMs |-> t] :
        u \in {<<"o", "c", "t", "o">>, <<"a">>}, t \in {None, Some(TickMs)} }
timeoutMsOf(c) == IF c.timeoutMs = None THEN DEFAULT_TIMEOUT_MS ELSE c.timeoutMs[1]

\* What the upstream may do with the POST: the fetch rejects (network), or it
\* resolves with a response whose body is read afterwards.
FetchRejections == { ReplyThrows("TypeError", "fetch failed") }
FetchResponses ==
    { ReplyStatus(500), ReplyStatus(404), ReplyInvalid,
      ReplyJson(<<"Could not resolve to a User">>, DataUserNull),
      ReplyJson(<<"Something went wrong">>, None),
      ReplyJson(<<"Something went wrong">>, DataUser(<< <<3>> >>)),
      ReplyJson(<<>>, None),
      ReplyJson(<<>>, DataUserNull),
      ReplyJson(<<>>, DataUser(<<>>)),
      ReplyJson(<<>>, DataUser(<< <<>> >>)),
      ReplyJson(<<>>, DataUser(<< <<4, 0>> >>)),
      ReplyJson(<<>>, DataUser(<< <<0, 1>>, <<2, 30>> >>)) }

\* new AbortController(); setTimeout(() => controller.abort(), timeoutMs);
\* fetch(...) is sent.
StartFetch ==
    /\ call # None /\ call[1].fn = "fetchTodayContributions"
    /\ pc = "idle"
    /\ pc' = "fetching" /\ timer' = "pending" /\ elapsed' = 0
    /\ UNCHANGED <<call, result, inflight, levelVars, renderVars, httpVars>>

\* Time passes while the call waits for the upstream.
Tick ==
    /\ pc \in {"fetching", "reading"} /\ timer = "pending"
    /\ elapsed < timeoutMsOf(call[1])
    /\ elapsed' = elapsed + TickMs
    /\ UNCHANGED <<call, result, pc, timer, inflight, levelVars, renderVars, httpVars>>

\* The timeout ran out: the timer callback aborts the request.
TimerFires ==
    /\ pc \in {"fetching", "reading"} /\ timer = "pending"
    /\ elapsed >= timeoutMsOf(call[1])
    /\ timer' = "fired" /\ pc' = "aborted"
    /\ UNCHANGED <<call, result, elapsed, inflight, levelVars, renderVars, httpVars>>

\* The aborted fetch (or body read) rejects with an AbortError: catch, then
\* finally; clearTimeout of a timer that has fired leaves nothing pending.
AbortRejects ==
    /\ pc = "aborted"
    /\ result' = Some(fetchTodayContributions(call[1].username,
                          ReplyThrows("AbortError", "The operation was aborted")))
    /\ pc' = "done"
    /\ UNCHANGED <<call, timer, elapsed, inflight, levelVars, renderVars, httpVars>>

\* The fetch rejects with a network error: catch, then finally clearTimeout.
FetchRejects ==
    /\ pc = "fetching"
    /\ \E reply \in FetchRejections :
            /\ inflight' = Some(reply)
            /\ result' = Some(fetchTodayContributions(call[1].username, reply))
    /\ pc' = "done" /\ timer' = "cleared"
    /\ UNCHANGED <<call, elapsed, levelVars, renderVars, httpVars>>

\* The fetch resolves with a response: a status outside 2xx is returned at once
\* (finally clearTimeout); otherwise the body is awaited.
FetchResolves ==
    /\ pc = "fetching"
    /\ \E reply \in FetchResponses :
            /\ inflight' = Some(reply)
            /\ IF reply.kind = "status"
               THEN /\ result' = Some(fetchTodayContributions(call[1].username, reply))
                    /\ pc' = "done" /\ timer' = "cleared"
               ELSE /\ result' = result
                    /\ pc' = "reading" /\ timer' = timer
    /\ UNCHANGED <<call, elapsed, levelVars, renderVars, httpVars>>

\* A body read that returns without the finally block: the timer stays set.
BodyReadNoFinally ==
    /\ pc = "reading"
    /\ result' = Some(fetchTodayContributions(call[1].username, inflight[1]))
    /\ pc' = "done"
    /\ UNCHANGED <<call, timer, elapsed, inflight, levelVars, renderVars, httpVars>>

\* response.json() settles and the reply is classified; finally clearTimeout.
BodyRead ==
    /\ pc = "reading"
    /\ result' = Some(fetchTodayContributions(call[1].username, inflight[1]))
    /\ pc' = "done" /\ timer' = "cleared"
    /\ UNCHANGED <<call, elapsed, inflight, levelVars, renderVars, httpVars>>

(***************************************************************************)
(* generators/themes/kata-levels.ts: generateTrail on its own              *)
(***************************************************************************)

\* Delays, durations and loop intervals are multiples of TrailStepMs
\* milliseconds.
TrailStepMs == 250
MaxTrailSteps == 4
MaxTrailLoopSteps == 8

TrailCalls ==
    { [fn |-> "generateTrail", duration |-> d * TrailStepMs, delay |-> w * TrailStepMs,
       loopInterval |-> l * TrailStepMs] :
        d \in 1..MaxTrailSteps, w \in 0..MaxTrailSteps, l \in 1..MaxTrailLoopSteps }

CallGenerateTrail ==
    /\ call # None /\ result = None
    /\ call[1].fn = "generateTrail"
    /\ result' = Some(generateTrail(call[1].duration, call[1].delay, call[1].loopInterval))
    /\ UNCHANGED <<call, levelVars, renderVars, httpVars, fetchVars>>

(***************************************************************************)
(* Specifications                                                          *)
(***************************************************************************)

InitHelpers ==
    /\ HelperIdle /\ LevelIdle /\ RenderIdle /\ HttpIdle /\ FetchIdle
NextHelpers == CallAnimateAttr \/ CallAnimateTransform
SpecHelpers == InitHelpers /\ [][NextHelpers]_vars

InitLevel == InitHelpers
NextLevel == CallCalculateLevel
SpecLevel == InitLevel /\ [][NextLevel]_vars

InitRender == InitHelpers
NextRender == CallGenerateFireworksSVG
SpecRender == InitRender /\ [][NextRender]_vars

\* The arguments of the one call are drawn at the start.
InitKeyTimes ==
    /\ call \in { Some(c) : c \in ToKeyTimeCalls \cup ToKeyTimesCalls }
    /\ result = None
    /\ LevelIdle /\ RenderIdle /\ HttpIdle /\ FetchIdle
NextKeyTimes == CallToKeyTime \/ CallToKeyTimes
SpecKeyTimes == InitKeyTimes /\ [][NextKeyTimes]_vars

InitOverlay ==
    /\ call \in { Some(c) : c \in OverlayCalls }
    /\ result = None
    /\ LevelIdle /\ RenderIdle /\ HttpIdle /\ FetchIdle
NextOverlay == CallGenerateUserOverlay
SpecOverlay == InitOverlay /\ [][NextOverlay]_vars

InitTheme ==
    /\ call \in { Some(c) : c \in ResolveThemeCalls \cup SelectThemeByDateCalls }
    /\ result = None
    /\ LevelIdle /\ RenderIdle /\ HttpIdle /\ FetchIdle
NextTheme == CallResolveTheme \/ CallSelectThemeByDate
SpecTheme == InitTheme /\ [][NextTheme]_vars

InitFetch ==
    /\ call \in { Some(c) : c \in FetchCalls }
    /\ result = None
    /\ LevelIdle /\ RenderIdle /\ HttpIdle /\ FetchIdle
NextFetch ==
    \/ StartFetch \/ Tick \/ TimerFires \/ AbortRejects
    \/ FetchRejects \/ FetchResolves \/ BodyRead
SpecFetch == InitFetch /\ [][NextFetch]_vars
\* The event loop runs the call and its timer; the upstream owes nothing.
SpecFetchFair ==
    /\ SpecFetch
    /\ WF_vars(StartFetch) /\ WF_vars(Tick) /\ WF_vars(TimerFires) /\ WF_vars(AbortRejects)

InitTrail ==
    /\ call \in { Some(c) : c \in TrailCalls }
    /\ result = None
    /\ LevelIdle /\ RenderIdle /\ HttpIdle /\ FetchIdle
NextTrail == CallGenerateTrail
SpecTrail == InitTrail /\ [][NextTrail]_vars

\* What the world does in the run is drawn at the start.
InitHttp ==
    /\ HelperIdle /\ LevelIdle /\ RenderIdle /\ FetchIdle
    /\ HttpStart /\ world \in Worlds
NextHttp ==
    \/ \E h \in Handlers : GetFireworks(h)
    \/ \E h \in Handlers : FireworksCacheAnswered(h)
    \/ \E h \in Handlers : FireworksFetchAnswered(h)
    \/ \E h \in Handlers : GetDemo(h)
    \/ \E h \in Handlers : DemoCacheAnswered(h)
    \/ \E h \in Handlers : CachePutStored(h)
    \/ CacheExpire
SpecHttp == InitHttp /\ [][NextHttp]_vars

(***************************************************************************)
(* Properties                                                              *)
(***************************************************************************)

Range(f) == { f[k] : k \in DOMAIN f }

\* Every timeline element of a document.
Timelines(doc) ==
    UNION { UNION { Range(sh.timelines) : sh \in Range(g.shapes) } : g \in Range(doc.children) }

\* The timelines that carry a keyTimes list next to their values list.
KeyedTimelines(doc) == { t \in Timelines(doc) : t.keyTimes # <<>> }

\* C1: animateAttr and animateTransform throw the length-mismatch error, and so
\* return no fragment, whenever values and keyTimes differ in length; with equal
\* lengths they never throw and the fragment carries exactly the values and the
\* keyTimes given, as many of the one as of the other.
C1_LengthCheck ==
    call # None =>
        LET c == call[1]
            r == result[1]
        IN  /\ Len(c.values) # Len(c.keyTimes) =>
                /\ r.status = "error"
                /\ r.fn = c.fn
                /\ r.nValues = Len(c.values) /\ r.nKeyTimes = Len(c.keyTimes)
            /\ Len(c.values) = Len(c.keyTimes) =>
                /\ r.status = "ok"
                /\ r.values = c.values /\ r.keyTimes = c.keyTimes
                /\ Len(r.values) = Len(r.keyTimes)

\* animateAttr was given fewer values than keyTimes and threw.
C1_Witness ==
    /\ call # None
    /\ call[1].fn = "animateAttr"
    /\ Len(call[1].values) = 1 /\ Len(call[1].keyTimes) = 2
    /\ result[1].status = "error"

\* C9: calculateLevel maps commits <= 0 to 0, 1..3 to 1, 4..7 to 2, 8..15 to 3,
\* 16..29 to 4 and 30 or more to 5; the level lies in 0..5 and a call with no
\* fewer commits than the call before returns no lower level.
C9_LevelBands ==
    commitsIn # None =>
        LET c == commitsIn[1]
            l == levelOut[1]
        IN  /\ l \in 0..5
            /\ c <= 0 => l = 0
            /\ (1 <= c /\ c <= 3) => l = 1
            /\ (4 <= c /\ c <= 7) => l = 2
            /\ (8 <= c /\ c <= 15) => l = 3
            /\ (16 <= c /\ c <= 29) => l = 4
            /\ c >= 30 => l = 5
            /\ (prevCommits # None /\ prevCommits[1] <= c) => prevLevel[1] <= l

\* 15 commits were classified as level 3 right after 7 commits as level 2.
C9_Witness ==
    /\ commitsIn = Some(15) /\ levelOut = Some(3)
    /\ prevCommits = Some(7) /\ prevLevel = Some(2)

\* C2: in the document generateFireworksSVG returns, for both themes, every
\* level and every canvas size, each animation element that has both a values
\* list and a keyTimes list has as many values as keyTimes.
C2_EqualCounts ==
    svg # None => \A t \in KeyedTimelines(svg[1]) : t.nValues = Len(t.keyTimes)

\* A matsuri level 5 document with the Niagara layer on the widest canvas: it
\* holds timelines of 3, 4, 5 and 6 key times.
C2_Witness ==
    /\ svg # None
    /\ cfg[1].theme = "matsuri" /\ cfg[1].level = 5 /\ cfg[1].isExtra = Some(TRUE)
    /\ cfg[1].width = Some(800)
    /\ \A n \in 3..6 : \E t \in KeyedTimelines(svg[1]) : Len(t.keyTimes) = n

\* C3: every timeline with key times in the output of every (theme, level 1..5)
\* composer ends with the fraction 1.
C3_LastKeyTimeIsOne ==
    svg # None =>
        \A t \in KeyedTimelines(svg[1]) : t.keyTimes[Len(t.keyTimes)] = 10000

\* C4: in every timeline the theme composers emit the time fractions are
\* non-decreasing and lie in [0, 1], for every particle index.
C4_KeyTimesMonotone ==
    svg # None =>
        \A t \in KeyedTimelines(svg[1]) :
            /\ \A k \in DOMAIN t.keyTimes : 0 <= t.keyTimes[k] /\ t.keyTimes[k] <= 10000
            /\ \A k \in 1..(Len(t.keyTimes) - 1) : t.keyTimes[k] <= t.keyTimes[k + 1]

\* C5: two calls of generateFireworksSVG with the same configuration return the
\* same document: no timeline of the document has a value that a draw of an
\* unseeded random source can give in more than one way.
C5_SameConfigSameDocument ==
    svg # None => \A t \in Timelines(svg[1]) : Len(t.draws) <= 1

\* The <g> ids of the themed firework groups, and the group tests of C10.
FireworkGroupIds ==
    { "firework-kata-level-1", "firework-kata-level-2", "firework-kata-level-3",
      "firework-kata-level-4", "firework-kata-level-5",
      "firework-matsuri-level-1", "firework-matsuri-level-2", "firework-matsuri-level-3",
      "firework-matsuri-level-4", "firework-matsuri-level-5" }
HasThemedGroup(doc) == \E g \in Range(doc.children) : g.id \in FireworkGroupIds
HasBackgroundFireworks(doc) ==
    \E g \in Range(doc.children) : g.class = "background-fireworks"
HasNightSkyWithStars(doc) ==
    \E g \in Range(doc.children) :
        /\ g.id = "night-sky"
        /\ \E sh \in Range(g.shapes) :
            /\ sh.element = "circle" /\ sh.count > 0
            /\ \E t \in Range(sh.timelines) : t.gen = "stars"
HasUserOverlay(doc) ==
    \E g \in Range(doc.children) : g.id = "user-overlay" /\ Len(g.text) = 3

\* C10: at level 0, whichever the theme, the document has no themed firework
\* group and no background-fireworks group, but it has the night-sky group with
\* its stars and the user overlay; at levels 1..5 it has both a themed firework
\* group and a background-fireworks group.
C10_LevelZeroIsSilent ==
    svg # None =>
        LET doc == svg[1]
            level == cfg[1].level
        IN  /\ level = 0 =>
                /\ ~HasThemedGroup(doc) /\ ~HasBackgroundFireworks(doc)
                /\ HasNightSkyWithStars(doc) /\ HasUserOverlay(doc)
            /\ level \in 1..5 => HasThemedGroup(doc) /\ HasBackgroundFireworks(doc)

\* A level 0 document of the matsuri theme: night sky and overlay only.
C10_Witness ==
    /\ svg # None
    /\ cfg[1].level = 0 /\ cfg[1].theme = "matsuri"
    /\ Len(svg[1].children) = 2
    /\ HasNightSkyWithStars(svg[1]) /\ HasUserOverlay(svg[1])

\* The document a 200 response carries in its body.
BodyDocument(response) == generateFireworksSVG(response.body.config)

\* The upstream failures the fetch reports as API errors: the fetch rejected
\* (timeout, network), the status was not 2xx, the body was not JSON, or the
\* GraphQL body listed errors.
UpstreamFailed(reply) ==
    \/ reply.kind \in {"throws", "status", "invalid"}
    \/ reply.kind = "json" /\ Len(reply.errors) > 0

\* C6: when the upstream fetch made for a /api/fireworks request fails with an
\* API error, the answer is 200, image/svg+xml, and its body is the level-0
\* document showing 0 commits: no themed group, no background fireworks.
C6_UpstreamFailureFallsBack ==
    (fetched # None /\ (UpstreamFailed(fetched[1].reply)
                        \/ (~fetched[1].result.ok
                            /\ fetched[1].result.error.type = "API_ERROR"))) =>
        /\ req[1].endpoint = "/api/fireworks"
        /\ resp[1].status = 200
        /\ resp[1].contentType = "image/svg+xml"
        /\ resp[1].body.kind = "svg"
        /\ resp[1].body.config.level = 0 /\ resp[1].body.config.commits = 0
        /\ ~HasThemedGroup(BodyDocument(resp[1]))
        /\ ~HasBackgroundFireworks(BodyDocument(resp[1]))
        /\ HasNightSkyWithStars(BodyDocument(resp[1]))
        /\ \E g \in Range(BodyDocument(resp[1]).children) :
               g.id = "user-overlay" /\ g.text[2] = getCommitText(0)

\* The fetch timed out and the request was answered 200 with the silent night.
C6_Witness ==
    /\ fetched # None
    /\ fetched[1].reply.kind = "throws" /\ fetched[1].reply.name = "AbortError"
    /\ fetched[1].result = ApiError(<<"Request timeout">>)
    /\ resp[1].status = 200 /\ resp[1].body.kind = "svg"
    /\ resp[1].body.config.level = 0

\* C7: a /api/fireworks request for a user name the upstream does not know (the
\* upstream answered, and the user of its answer is null) is answered 404 with a
\* JSON error body, and no SVG is generated for it.
C7_UnknownUserIs404 ==
    (fetched # None /\ fetched[1].reply.kind = "json"
                    /\ fetched[1].reply.data = DataUserNull) =>
        /\ resp[1].status = 404
        /\ resp[1].body.kind = "json"
        /\ ~effects[1].svgGenerated

\* The tests of C8 on the raw query of a request.
OutsideRange(param, min, max) ==
    /\ param # None
    /\ ~JsNumber(param[1]).isNaN
    /\ (JsNumber(param[1]).value < min \/ JsNumber(param[1]).value > max)
NegativeOrFraction(param) ==
    /\ param # None
    /\ ~JsNumber(param[1]).isNaN
    /\ (JsNumber(param[1]).value < 0 \/ ~JsNumber(param[1]).isInteger)
MissingOrEmpty(param) == param = None \/ param = Some(<<>>)

\* Answered 400 with a JSON error, and nothing else was done.
RejectedUntouched ==
    /\ resp[1].status = 400
    /\ resp[1].contentType = "application/json"
    /\ resp[1].body.kind = "json"
    /\ effects[1] = Effects(FALSE, FALSE, FALSE, FALSE)
    /\ fetched = None

\* C8 as stated: on either endpoint a width outside 200..800, a height outside
\* 100..400, a negative or non-integer commits value or, on /api/fireworks, a
\* missing or empty user is answered 400 with a JSON error, without the cache
\* being read or written, the upstream called or an SVG generated.
C8_AsStated ==
    (req # None
     /\ \/ OutsideRange(req[1].query.width, MIN_WIDTH, MAX_WIDTH)
        \/ OutsideRange(req[1].query.height, MIN_HEIGHT, MAX_HEIGHT)
        \/ NegativeOrFraction(req[1].query.commits)
        \/ (req[1].endpoint = "/api/fireworks" /\ MissingOrEmpty(req[1].query.user)))
    => RejectedUntouched

\* C8, amended: the commits rule holds on /api/demo only; /api/fireworks has no
\* commits parameter and ignores one. On either endpoint a width outside
\* 200..800 or a height outside 100..400, on /api/demo a negative or non-integer
\* commits value, on /api/fireworks a missing or empty user is answered 400 with
\* a JSON error, without the cache being read or written, the upstream called
\* or an SVG generated.
C8_InvalidRequestIs400 ==
    (req # None
     /\ \/ OutsideRange(req[1].query.width, MIN_WIDTH, MAX_WIDTH)
        \/ OutsideRange(req[1].query.height, MIN_HEIGHT, MAX_HEIGHT)
        \/ (req[1].endpoint = "/api/demo" /\ NegativeOrFraction(req[1].query.commits))
        \/ (req[1].endpoint = "/api/fireworks" /\ MissingOrEmpty(req[1].query.user)))
    => RejectedUntouched

\* A /api/fireworks request with width 801 was rejected while the cache held an
\* entry, and the entry is still there.
C8_Witness ==
    /\ req # None /\ req[1].endpoint = "/api/fireworks"
    /\ req[1].query.width = Some("801")
    /\ req[1].query.user = Some(<<"o", "c", "t", "o">>)
    /\ RejectedUntouched
    /\ cache # {}

\* The waterfall layer of a document.
HasNiagaraEffect(doc) == \E g \in Range(doc.children) : g.class = "niagara-effect"

\* C11: the document generateFireworksSVG returns has the niagara-effect group
\* exactly when isExtra was given as true; with isExtra false or left out the
\* group is absent, whatever the level and the theme.
C11_NiagaraIffExtra ==
    svg # None => (HasNiagaraEffect(svg[1]) <=> cfg[1].isExtra = Some(TRUE))

\* A level 0 document asked for with isExtra: the waterfall is there, between the
\* night sky and the overlay.
C11_Witness ==
    /\ svg # None
    /\ cfg[1].level = 0 /\ cfg[1].isExtra = Some(TRUE)
    /\ Len(svg[1].children) = 3
    /\ svg[1].children[2].class = "niagara-effect"

\* C12: a /api/demo request with extra=true or extra=1 is answered with a
\* document that has the niagara-effect group, and one without the extra
\* parameter with a document that has not.
C12_DemoExtraShowsNiagara ==
    (req # None /\ req[1].endpoint = "/api/demo" /\ resp[1].status = 200) =>
        (HasNiagaraEffect(BodyDocument(resp[1]))
            <=> req[1].query.extra \in {Some("true"), Some("1")})

\* Checks if a day is a "lucky day": every 10th day of the year.
isLuckyDay(dayOfYear) == dayOfYear % 10 = 0

\* C13: the answer to a live /api/fireworks request has the niagara-effect group
\* when the fetched commit count is above 50, or is at least 30 on a lucky day,
\* and has not otherwise.
C13_LiveNiagaraTrigger ==
    (fetched # None /\ fetched[1].result.ok) =>
        LET commits == fetched[1].result.value
        IN  HasNiagaraEffect(BodyDocument(resp[1]))
                <=> (commits > 50 \/ (commits >= 30 /\ isLuckyDay(fetched[1].dayOfYear)))

\* The place of a group in the layer order: night sky, background fireworks,
\* themed firework group, waterfall, user overlay; 0 for anything else.
LayerRank(g) ==
    CASE g.id = "night-sky" -> 1
      [] g.class = "background-fireworks" -> 2
      [] g.id \in FireworkGroupIds -> 3
      [] g.class = "niagara-effect" -> 4
      [] g.id = "user-overlay" -> 5
      [] OTHER -> 0

\* C14: the children of every document generateFireworksSVG returns are layers
\* in the order night sky, background fireworks, themed firework group,
\* waterfall, user overlay; a layer left out leaves the others in that order,
\* whatever the level, the theme and isExtra.
C14_LayerOrder ==
    svg # None =>
        LET ch == svg[1].children
        IN  /\ \A k \in DOMAIN ch : LayerRank(ch[k]) \in 1..5
            /\ \A k \in 1..(Len(ch) - 1) : LayerRank(ch[k]) < LayerRank(ch[k + 1])
            /\ LayerRank(ch[1]) = 1 /\ LayerRank(ch[Len(ch)]) = 5

\* A matsuri level 3 document with the waterfall: all five layers, in order.
C14_Witness ==
    /\ svg # None
    /\ cfg[1].theme = "matsuri" /\ cfg[1].level = 3 /\ cfg[1].isExtra = Some(TRUE)
    /\ Len(svg[1].children) = 5
    /\ \A k \in 1..5 : LayerRank(svg[1].children[k]) = k

\* C15: for every non-empty times array and every positive loop duration the
\* last element of what toKeyTimes returns is exactly 1.
C15_LastIsOne ==
    (call # None /\ result # None /\ call[1].fn = "toKeyTimes"
     /\ Len(call[1].times) > 0) =>
        result[1].values[Len(result[1].values)] = Pow10(result[1].precision)

\* A sequence of numbers that never decreases.
NonDecreasing(seq) == \A k \in 1..(Len(seq) - 1) : seq[k] <= seq[k + 1]

\* The call made was toKeyTimes on a non-decreasing array of times.
ToKeyTimesOfNonDecreasing ==
    /\ call # None /\ result # None /\ call[1].fn = "toKeyTimes"
    /\ NonDecreasing(call[1].times)

\* The element is at most 0.99, and is 0.99 when its time is at or beyond the
\* loop duration.
ClampedToPoint99(k) ==
    LET one == Pow10(result[1].precision)
    IN  /\ result[1].values[k] * 100 <= 99 * one
        /\ call[1].times[k] >= call[1].loopInterval =>
               result[1].values[k] * 100 = 99 * one

\* C16 as stated: for a non-decreasing array of non-negative times and a
\* positive loop duration, whatever the precision, toKeyTimes returns as many
\* elements as it was given, the non-final ones in [0, 0.99], never decreasing;
\* a non-final time at or beyond the loop duration becomes 0.99, never 1.
C16_AsStated ==
    ToKeyTimesOfNonDecreasing =>
        LET out == result[1].values
        IN  /\ Len(out) = Len(call[1].times)
            /\ NonDecreasing(out)
            /\ \A k \in 1..(Len(out) - 1) : 0 <= out[k] /\ ClampedToPoint99(k)

\* C16, amended: for a non-decreasing array of non-negative times and a
\* positive loop duration, toKeyTimes returns as many elements as it was
\* given, none negative, never decreasing; for every precision >= 2, the
\* default 4 among them, the non-final ones lie in [0, 0.99] and a non-final
\* time at or beyond the loop duration becomes 0.99, never 1. With precision
\* 0 or 1 the rounding of 0.99 itself gives 1.
C16_ClampedAndMonotone ==
    ToKeyTimesOfNonDecreasing =>
        LET out == result[1].values
        IN  /\ Len(out) = Len(call[1].times)
            /\ NonDecreasing(out)
            /\ \A k \in 1..(Len(out) - 1) :
                   /\ 0 <= out[k]
                   /\ result[1].precision >= 2 => ClampedToPoint99(k)

\* toKeyTimes([0, 4, 5], 3) returned [0, 0.99, 1].
C16_Witness ==
    /\ call # None /\ result # None /\ call[1].fn = "toKeyTimes"
    /\ call[1].times = <<0, 4, 5>> /\ call[1].loopInterval = 3
    /\ call[1].precision = None
    /\ result[1].values = <<0, 9900, 10000>>

\* The string toKeyTime returned denotes min(time / loopInterval, 0.99) rounded
\* to its precision: no number of that many decimals is nearer to it.
DenotesClampedQuotient ==
    LET c == call[1]
        clamped == c.time * 100 >= 99 * c.loopInterval
        num == IF clamped THEN 99 ELSE c.time
        den == IF clamped THEN 100 ELSE c.loopInterval
        diff == result[1].digits * den - num * Pow10(result[1].precision)
    IN  /\ 2 * diff <= den /\ 2 * diff >= 0 - den
        /\ c.precision # None => result[1].precision = c.precision[1]
        /\ c.precision = None => result[1].precision = 4

\* The string denotes no more than 0.99.
AtMostPoint99 == result[1].digits * 100 <= 99 * Pow10(result[1].precision)

\* C17 as stated: for every time >= 0, positive loop duration and precision >= 0
\* the string toKeyTime returns denotes min(time / loopDuration, 0.99) to that
\* precision and never more than 0.99, so never 1.
C17_AsStated ==
    (call # None /\ result # None /\ call[1].fn = "toKeyTime") =>
        /\ DenotesClampedQuotient
        /\ AtMostPoint99
        /\ result[1].digits # Pow10(result[1].precision)

\* C17, amended: the string denotes min(time / loopDuration, 0.99) rounded to
\* the precision, for every precision >= 0; for every precision >= 2 it never
\* denotes more than 0.99 and so never 1. With precision 0 or 1 the rounding
\* of 0.99 itself gives 1.
C17_ClampedBelowOne ==
    (call # None /\ result # None /\ call[1].fn = "toKeyTime") =>
        /\ DenotesClampedQuotient
        /\ result[1].precision >= 2 =>
               (AtMostPoint99 /\ result[1].digits # Pow10(result[1].precision))

\* toKeyTime(5, 3) returned "0.9900".
C17_Witness ==
    /\ call # None /\ result # None /\ call[1].fn = "toKeyTime"
    /\ call[1].time = 5 /\ call[1].loopInterval = 3 /\ call[1].precision = None
    /\ result[1] = [digits |-> 9900, precision |-> 4]

\* What one piece of a text is to become: its entity, or itself.
XmlEntity(ch) ==
    CASE ch = "&" -> <<"&", "a", "m", "p", ";">>
      [] ch = "<" -> <<"&", "l", "t", ";">>
      [] ch = ">" -> <<"&", "g", "t", ";">>
      [] ch = "\"" -> <<"&", "q", "u", "o", "t", ";">>
      [] ch = "'" -> <<"&", "a", "p", "o", "s", ";">>
      [] OTHER -> <<ch>>
XmlEntities == { XmlEntity(ch) : ch \in {"&", "<", ">", "\"", "'"} }

\* Every piece replaced by exactly one entity, or kept.
RECURSIVE EachEscapedOnce(_)
EachEscapedOnce(text) ==
    IF text = <<>> THEN <<>> ELSE XmlEntity(Head(text)) \o EachEscapedOnce(Tail(text))

\* No raw < > " ' and every & starts an entity.
SafeXmlText(out) ==
    /\ \A k \in DOMAIN out : out[k] \notin {"<", ">", "\"", "'"}
    /\ \A k \in DOMAIN out :
           out[k] = "&" => \E e \in XmlEntities :
                               /\ k + Len(e) - 1 <= Len(out)
                               /\ SubSeq(out, k, k + Len(e) - 1) = e

\* C18: for every user name and level name, the texts the overlay holds have no
\* raw < > " or ', every & in them starts one of the five entities, and each
\* & < > " ' given is replaced by exactly one entity: the & of an entity
\* written for another character is not escaped again.
C18_OverlayTextEscaped ==
    (call # None /\ result # None /\ call[1].fn = "generateUserOverlay") =>
        LET text == result[1].text
        IN  /\ SafeXmlText(text[1]) /\ SafeXmlText(text[3])
            /\ text[1] = EachEscapedOnce(call[1].username)
            /\ text[3] = EachEscapedOnce(call[1].levelName)

\* The user name <&" became &lt;&amp;&quot; in the overlay.
C18_Witness ==
    /\ call # None /\ result # None /\ call[1].fn = "generateUserOverlay"
    /\ call[1].username = <<"<", "&", "\"">>
    /\ call[1].levelName = <<"'">>
    /\ result[1].text[1] = <<"&", "l", "t", ";", "&", "a", "m", "p", ";",
                              "&", "q", "u", "o", "t", ";">>
    /\ result[1].text[3] = <<"&", "a", "p", "o", "s", ";">>

\* The request came with commit count 0: simulated on /api/demo, or fetched.
ZeroCommitsRequest ==
    /\ req # None
    /\ \/ (req[1].endpoint = "/api/demo" /\ req[1].query.commits = Some("0"))
       \/ (fetched # None /\ fetched[1].result.ok /\ fetched[1].result.value = 0)

\* The answer is the level 0 image with the given level label: stars, no
\* themed group, no background fireworks.
SilentImage(label) ==
    /\ resp[1].status = 200 /\ resp[1].body.kind = "svg"
    /\ resp[1].body.config.level = 0
    /\ HasNightSkyWithStars(BodyDocument(resp[1]))
    /\ ~HasThemedGroup(BodyDocument(resp[1]))
    /\ ~HasBackgroundFireworks(BodyDocument(resp[1]))
    /\ \E g \in Range(BodyDocument(resp[1]).children) :
           g.id = "user-overlay" /\ g.text[3] = label

\* C19 as stated: a request with commit count 0, simulated or fetched live, is
\* classified as level 0 and its image shows the label "Silent Night", the star
\* field and no fireworks, whichever the theme.
C19_AsStated == ZeroCommitsRequest => SilentImage(LEVEL_NAMES[1])

\* C19, amended: a request with commit count 0 (simulated without a level
\* override, or fetched live) is classified as level 0 and its image shows the
\* level 0 name of the theme selected, which is the same for kata and matsuri
\* and is not "Silent Night", with the star field and no fireworks.
C19_ZeroCommitsIsSilent ==
    (ZeroCommitsRequest /\ req[1].query.level = None) =>
        /\ SilentImage(LEVEL_NAMES_KATA[1])
        /\ LEVEL_NAMES_KATA[1] = LEVEL_NAMES_MATSURI[1]
        /\ LEVEL_NAMES_KATA[1] # LEVEL_NAMES[1]

\* /api/demo?commits=0 on a matsuri day: level 0 under the matsuri name.
C19_Witness ==
    /\ req # None /\ req[1].endpoint = "/api/demo"
    /\ req[1].query.commits = Some("0") /\ req[1].query.level = None
    /\ resp[1].status = 200
    /\ resp[1].body.config.theme = "matsuri"
    /\ resp[1].body.config.levelName = LEVEL_NAMES_MATSURI[1]
    /\ SilentImage(LEVEL_NAMES_MATSURI[1])

\* How many <animate> and <animateTransform> elements a document holds: a shape
\* stands for count elements, each with that shape's timelines.
GroupTimelineCount(g) ==
    LET RECURSIVE S(_)
        S(k) == IF k = 0 THEN 0
                ELSE g.shapes[k].count * Len(g.shapes[k].timelines) + S(k - 1)
    IN  S(Len(g.shapes))
TimelineCount(doc) ==
    LET RECURSIVE S(_)
        S(k) == IF k = 0 THEN 0 ELSE GroupTimelineCount(doc.children[k]) + S(k - 1)
    IN  S(Len(doc.children))

\* The level 1 configuration with the user name, theme, canvas and isExtra of a
\* given one.
AtLevelOne(config) ==
    [config EXCEPT !.level = 1, !.commits = CommitsOfLevel[2],
                   !.levelName = getLevelName(1, config.theme)]

\* C20: for each theme and the same user name and canvas size, the level 5
\* document holds strictly more animation timeline elements than the level 1
\* document.
C20_LevelFiveHasMoreTimelines ==
    (svg # None /\ cfg[1].level = 5) =>
        TimelineCount(svg[1]) > TimelineCount(generateFireworksSVG(AtLevelOne(cfg[1])))

\* A matsuri level 5 document on the default canvas: 511 timelines in its themed
\* group, against 39 in that of level 1.
C20_Witness ==
    /\ svg # None
    /\ cfg[1].level = 5 /\ cfg[1].theme = "matsuri" /\ cfg[1].isExtra = None
    /\ cfg[1].width = None
    /\ GroupTimelineCount(svg[1].children[3]) = 511
    /\ GroupTimelineCount(generateFireworksSVG(AtLevelOne(cfg[1])).children[3]) = 39
    /\ TimelineCount(svg[1]) > TimelineCount(generateFireworksSVG(AtLevelOne(cfg[1])))

\* C21: answering a /api/demo request never calls the upstream contribution
\* source, whatever its query and whether the edge cache held its answer or not:
\* no fetch is made and no fetch result exists for it.
C21_DemoNeverCallsUpstream ==
    (req # None /\ req[1].endpoint = "/api/demo") =>
        /\ ~effects[1].upstreamCalled
        /\ fetched = None

\* A demo request that missed the cache: the SVG was generated and stored, with
\* no upstream call.
C21_Witness ==
    /\ req # None /\ req[1].endpoint = "/api/demo"
    /\ resp[1].status = 200
    /\ effects[1].cacheRead /\ effects[1].cacheWritten /\ effects[1].svgGenerated
    /\ ~effects[1].upstreamCalled /\ fetched = None

\* The place of a date in its year by the calendar: 1 January is day 1.
OrdinalDay(date) ==
    Cardinality({ d \in CalendarDates :
                    /\ d.year = date.year /\ d.hour = date.hour
                    /\ (d.month < date.month \/ (d.month = date.month /\ d.day <= date.day)) })

\* C22: a theme parameter that is exactly "kata" or "matsuri" is the theme used,
\* whatever the date; with any other value, or none, the date alone decides: an
\* even day of the year gives kata, an odd day gives matsuri.
C22_ThemeResolution ==
    (call # None /\ call[1].fn = "resolveTheme" /\ result # None) =>
        LET p == call[1].themeParam
        IN  IF p = Some("kata") \/ p = Some("matsuri")
            THEN result[1] = p[1]
            ELSE result[1] = (IF OrdinalDay(call[1].date) % 2 = 0 THEN "kata" ELSE "matsuri")

\* theme=kata was asked on an odd day of the year and kata was used.
C22_Witness ==
    /\ call # None /\ call[1].fn = "resolveTheme" /\ result # None
    /\ call[1].themeParam = Some("kata")
    /\ OrdinalDay(call[1].date) % 2 = 1
    /\ result[1] = "kata"

\* C29: with automatic selection the theme rotates daily: selectThemeByDate gives
\* different themes for any two consecutive calendar days, 31 December followed
\* by 1 January included, in leap and in common years.
C29_ThemeRotatesDaily ==
    (call # None /\ call[1].fn = "selectThemeByDate" /\ result # None) =>
        result[1].today # result[1].tomorrow

\* C23: a /api/demo request that gives neither commits nor level is rendered
\* with a simulated commit count of 0, that is as level 0.
C23_DemoDefaultsToZeroCommits ==
    (/\ req # None /\ req[1].endpoint = "/api/demo"
     /\ req[1].query.commits = None /\ req[1].query.level = None
     /\ resp[1].status = 200) =>
        /\ resp[1].body.config.commits = 0
        /\ resp[1].body.config.level = 0

\* The last request went to /api/fireworks and was not answered from a
\* successful upstream fetch: it was rejected with 400, the user was unknown
\* (404), or the fetch failed and the level-0 fallback was sent.
LiveRequestWithoutCount ==
    /\ req # None /\ req[1].endpoint = "/api/fireworks"
    /\ \/ resp[1].status \in {400, 404}
       \/ fetched # None /\ ~fetched[1].result.ok
       \/ fetched # None /\ UpstreamFailed(fetched[1].reply)

\* The upstream was called for the last request and its fetch succeeded.
FetchSucceeded ==
    /\ effects[1].upstreamCalled
    /\ fetched # None /\ fetched[1].result.ok /\ ~UpstreamFailed(fetched[1].reply)

\* The step returns the response of invocation h.
Returns(h) ==
    /\ handlers[h].pc \in {"matching", "fetching"}
    /\ handlers'[h].pc \in {"idle", "putting"}

\* The step answers a request: an invocation returns, or the validator rejects.
Answers ==
    \/ \E h \in Handlers : Returns(h)
    \/ handlers' = handlers /\ <<req, resp, fetched, effects>>' # <<req, resp, fetched, effects>>

\* What C24 says of the writes: on /api/fireworks cache.put is called only by a
\* request whose own fetch succeeded, and with the response then returned; an
\* answer without a count leaves the cache and the pending writes as they were;
\* and nothing enters the cache but a write that was pending.
WritesOnlyFetchedCounts ==
    /\ \A h \in Handlers :
           (handlers[h].pc = "fetching" /\ handlers'[h].pc = "putting") =>
               /\ FetchSucceeded' /\ effects'[1].cacheWritten
               /\ handlers'[h] = HandlerPutting(req'[1], resp'[1])
    /\ (Answers /\ req'[1].endpoint = "/api/fireworks" /\ effects'[1].cacheWritten) =>
           /\ FetchSucceeded'
           /\ \E h \in Handlers : Returns(h) /\ handlers'[h].pc = "putting"
    /\ (Answers /\ LiveRequestWithoutCount') =>
           /\ ~effects'[1].cacheWritten
           /\ cache' = cache
           /\ \A h \in Handlers : handlers'[h].pc = "putting" => handlers'[h] = handlers[h]
    /\ \A e \in cache' \ cache :
           \E h \in Handlers :
               /\ handlers[h].pc = "putting" /\ handlers'[h].pc = "idle"
               /\ e = [request |-> handlers[h].request[1],
                       response |-> handlers[h].response[1]]

\* The step answers a /api/fireworks request for a URL that was answered 400
\* before.
AnswersRefusedAgain ==
    /\ Answers
    /\ req'[1].endpoint = "/api/fireworks"
    /\ req'[1] \in refused

\* C24 as the claim has it: the fallback, the 404 and the 400 are never written,
\* so a request for the same URL that arrives after one of them calls the
\* upstream again.
C24_AsStated ==
    [][/\ WritesOnlyFetchedCounts
       /\ \A h \in Handlers :
              (Returns(h) /\ handlers[h].late) => effects'[1].upstreamCalled
       /\ AnswersRefusedAgain => effects'[1].upstreamCalled]_vars

\* C24, amended: on /api/fireworks a response is written to the edge cache only
\* after the upstream fetch made for that request succeeded; the fallback sent
\* on an API error, the 404 and the 400 are never written. A request for the
\* same URL that arrives after a fallback or a 404 calls the upstream again
\* unless the edge cache holds, when the request looks, a response stored for
\* that URL by the write of another request. A request for a URL answered 400
\* before is answered 400 again by the validator: the cache is not looked at,
\* the upstream is not called, and the cache never holds an entry for that URL.
C24_OnlyFetchedCountsAreCached ==
    [][/\ WritesOnlyFetchedCounts
       /\ \A h \in Handlers :
              (Returns(h) /\ handlers[h].late) =>
                  \/ effects'[1].upstreamCalled
                  \/ /\ handlers[h].pc = "matching"
                     /\ \E e \in cache :
                            e.request = handlers[h].request[1] /\ resp' = Some(e.response)
       /\ AnswersRefusedAgain =>
              /\ resp'[1].status = 400
              /\ ~effects'[1].cacheRead /\ ~effects'[1].upstreamCalled
              /\ ~effects'[1].cacheWritten /\ ~effects'[1].svgGenerated
              /\ fetched' = None
              /\ handlers' = handlers /\ cache' = cache
              /\ \A e \in cache' : e.request # req'[1]]_vars

\* A too wide URL was answered 400 and the cache has no entry for it. Then, for
\* another URL, the fetch timed out and the fallback was sent; no write was made
\* for it, yet the edge cache now holds a response for that URL: the write of a
\* request answered before was carried out after the fallback.
C24_Witness ==
    /\ OctoTooWideRequest \in refused
    /\ \A e \in cache : e.request # OctoTooWideRequest
    /\ LiveRequestWithoutCount
    /\ fetched # None /\ fetched[1].result = ApiError(<<"Request timeout">>)
    /\ resp[1].status = 200 /\ resp[1].body.config.level = 0
    /\ effects[1].upstreamCalled /\ ~effects[1].cacheWritten
    /\ \E e \in cache : e.request = req[1] /\ e.response.body.config.commits = 30
    /\ \A h \in Handlers : handlers[h].pc = "idle"

\* C25: when the edge cache holds a response for the URL of a request at the
\* time the handler looks, the /api/fireworks and /api/demo handlers answer with
\* that very response, call no upstream and generate no SVG, whatever the
\* upstream would report now and whatever theme the date would select now; the
\* cache keeps its entries.
C25_CacheHitReturnsStoredResponse ==
    [][\A h \in Handlers : \A e \in cache :
           (/\ handlers[h].pc = "matching" /\ handlers'[h].pc # "matching"
            /\ e.request = handlers[h].request[1]) =>
               /\ req' = handlers[h].request
               /\ resp' = Some(e.response)
               /\ ~effects'[1].upstreamCalled /\ fetched' = None
               /\ ~effects'[1].svgGenerated /\ ~effects'[1].cacheWritten
               /\ cache' = cache
               /\ handlers'[h] = HandlerIdle]_vars

\* A /api/fireworks request was answered from the cache: the stored SVG
\* response was returned with no fetch and no generation.
C25_Witness ==
    /\ req # None /\ req[1].endpoint = "/api/fireworks"
    /\ \E e \in cache : e.request = req[1] /\ resp = Some(e.response)
    /\ resp[1].status = 200 /\ resp[1].body.kind = "svg"
    /\ effects[1].cacheRead
    /\ ~effects[1].upstreamCalled /\ ~effects[1].svgGenerated /\ fetched = None

\* A value of type Result<number, GitHubError>.
IsResult(r) ==
    \/ r.ok /\ r.value \in Nat
    \/ ~r.ok /\ r.error.type \in {"API_ERROR", "USER_NOT_FOUND"}

\* The reply made the code throw: the fetch rejected, the body was not JSON, or
\* there was no last week or no last day to read the count from.
ReplyMakesThrow(reply) ==
    \/ reply.kind \in {"throws", "invalid"}
    \/ /\ reply.kind = "json" /\ Len(reply.errors) = 0
       /\ reply.data # None /\ reply.data[1].user # None
       /\ LET weeks == reply.data[1].user[1]
          IN  Len(weeks) = 0 \/ Len(weeks[Len(weeks)]) = 0

\* C26: every call of fetchTodayContributions eventually resolves to a Result
\* and never rejects; when the timeout (10000 ms unless given) runs out before
\* the upstream has answered, the request is aborted and the result is
\* API_ERROR 'Request timeout'; any other thrown error, an empty weeks list
\* included, gives API_ERROR; and when the call returns no timer is pending.
C26_FetchAlwaysResolves ==
    /\ [](result # None => pc = "done")
    /\ [](pc = "done" =>
            /\ result # None /\ IsResult(result[1])
            /\ timer \in {"cleared", "fired"})
    /\ [](timer = "fired" => elapsed >= timeoutMsOf(call[1]))
    /\ []((pc = "done" /\ timer = "fired") =>
            result[1] = ApiError(<<"Request timeout">>))
    /\ []((pc = "done" /\ timer = "cleared" /\ ReplyMakesThrow(inflight[1])) =>
            (~result[1].ok /\ result[1].error.type = "API_ERROR"))
    /\ (timer = "fired" ~> (pc = "done" /\ result = Some(ApiError(<<"Request timeout">>))))
    /\ (pc = "fetching" ~> pc = "done")

\* The upstream stayed silent for the default 10000 ms: the timer fired and the
\* call returned the timeout error.
C26_Witness ==
    /\ call # None /\ call[1].fn = "fetchTodayContributions" /\ call[1].timeoutMs = None
    /\ pc = "done" /\ timer = "fired" /\ inflight = None
    /\ elapsed >= DEFAULT_TIMEOUT_MS
    /\ result = Some(ApiError(<<"Request timeout">>))

\* The user of a GraphQL reply is null (or the reply has no data at all).
UserIsNull(reply) == reply.data = None \/ reply.data[1].user = None

\* The count of the last day of the last week of a reply that has one.
LastDayCount(reply) ==
    LET weeks == reply.data[1].user[1]
    IN  weeks[Len(weeks)][Len(weeks[Len(weeks)])]

\* A response was received and classified (the timeout did not cut in).
Classified == pc = "done" /\ timer = "cleared" /\ inflight # None /\ inflight[1].kind # "throws"

\* C27: fetchTodayContributions classifies the upstream reply in a fixed order:
\* a status outside 2xx gives API_ERROR; otherwise a non-empty GraphQL errors
\* list gives API_ERROR, also when the user is null; only a reply without errors
\* whose user is null gives USER_NOT_FOUND; otherwise the result is ok with the
\* count of the last day of the last week.
C27_ClassificationOrder ==
    Classified =>
        LET reply == inflight[1]
            r == result[1]
        IN  /\ reply.kind = "status" => (~r.ok /\ r.error = [type |-> "API_ERROR",
                                                              message |-> <<"HTTP", reply.status>>])
            /\ (reply.kind = "json" /\ Len(reply.errors) > 0) =>
                   (~r.ok /\ r.error = [type |-> "API_ERROR", message |-> <<reply.errors[1]>>])
            /\ (~r.ok /\ r.error.type = "USER_NOT_FOUND") <=>
                   (reply.kind = "json" /\ Len(reply.errors) = 0 /\ UserIsNull(reply))
            /\ (reply.kind = "json" /\ Len(reply.errors) = 0 /\ ~UserIsNull(reply)
                    /\ ~ReplyMakesThrow(reply)) =>
                   r = Ok(LastDayCount(reply))

\* The reply listed an error and had a null user: the result is the API error
\* with the first message, not USER_NOT_FOUND.
C27_Witness ==
    /\ Classified
    /\ inflight[1].kind = "json" /\ Len(inflight[1].errors) > 0 /\ UserIsNull(inflight[1])
    /\ inflight[1].data # None
    /\ result = Some(ApiError(<<inflight[1].errors[1]>>))

\* The configuration of a lower level with the user name, theme, canvas and
\* isExtra of a given one.
AtLevel(config, level) ==
    [config EXCEPT !.level = level, !.commits = CommitsOfLevel[level + 1],
                   !.levelName = getLevelName(level, config.theme)]

\* C28: for each theme and every pair of levels a < b in 1..5, with the same
\* user name and canvas size, the level b document holds strictly more animation
\* timeline elements than the level a document.
C28_TimelinesGrowWithLevel ==
    (svg # None /\ cfg[1].level \in 2..5 /\ cfg[1].theme \in Themes) =>
        \A a \in 1..(cfg[1].level - 1) :
            TimelineCount(svg[1]) >
                TimelineCount(generateFireworksSVG(AtLevel(cfg[1], a)))

\* C30: for every trail configuration with delay >= 0, duration > 0 and
\* delay + duration <= loopInterval, each of the three timelines of the trail
\* (far end y2, near end y1, opacity) has non-decreasing time fractions within
\* [0,1]; in particular the fade-end fraction, clamped to 0.99, is never below
\* the trail-end fraction before it.
C30_TrailKeyTimesMonotone ==
    (/\ call # None /\ call[1].fn = "generateTrail" /\ result # None
     /\ call[1].delay >= 0 /\ call[1].duration > 0
     /\ call[1].delay + call[1].duration <= call[1].loopInterval) =>
        LET timelines == result[1][1].timelines
            opacity == timelines[3].keyTimes
        IN  /\ Len(timelines) = 3
            /\ \A i \in 1..3 :
                   /\ NonDecreasing(timelines[i].keyTimes)
                   /\ \A k \in DOMAIN timelines[i].keyTimes :
                          timelines[i].keyTimes[k] \in 0..10000
            /\ opacity[5] >= opacity[4]

====
